---- MODULE Spec2Model ----
(***************************************************************************)
(* A model of the image merger bot (fixed_merger_bot.py): the per-user     *)
(* conversation state machine, the session store user_data, the preset     *)
(* document spacing_presets.json and the job that composes and delivers    *)
(* the merged image.                                                       *)
(*                                                                         *)
(* Texts are Python strings: sequences of Unicode code points, so that     *)
(* startswith, replace, split, strip, int, lower, json.dump and json.load  *)
(* are computed character by character as Python computes them.  A text    *)
(* written out in the model is followed or preceded by its Python literal. *)
(*                                                                         *)
(* python-telegram-bot handles one update at a time (concurrent_updates is *)
(* off), so a handler runs to completion before the next update is looked  *)
(* at: one action of the model is one update, dispatched and handled.      *)
(***************************************************************************)
EXTENDS Integers, Sequences, FiniteSets, TLC

VARIABLES
    user_data,      \* the module-level dict user_data: user id -> session dict
    conversations,  \* ConversationHandler's state of each user's conversation
    presets_file,   \* spacing_presets.json: whether it exists, and its content
    outbox,         \* what the handling of the last update sent, in order
    running,        \* the handler calls in progress: user id -> the call
    font_file       \* whether FONT_FILE_PATH (boldonse.ttf) exists

vars == <<user_data, conversations, presets_file, outbox, running, font_file>>

----------------------------------------------------------------------------
(* Conversation states (line 18) and ConversationHandler.END.              *)

FIRST_IMAGE == 0
SECOND_IMAGE == 1
NAME == 2
SETTINGS == 3
CUSTOM_SPACING == 4
SPACING_INPUT == 5
PRESETS == 6
SAVE_PRESET == 7
LOAD_PRESET == 8
PRESET_NAME == 9
DELETE_PRESET == 10
EDIT_PRESET == 11
END == -1

SPACING_KEYS == {"image_x", "image_y", "text_x", "text_y"}

DEFAULT_SPACING == [k \in SPACING_KEYS |-> 0]

(* Button labels (lines 50-64), with their emoji. *)

(* "🖼️ Create New Image" *)
CREATE_IMAGE_TEXT ==
    <<128444, 65039, 32, 67, 114, 101, 97, 116, 101, 32, 78, 101, 119, 32,
      73, 109, 97, 103, 101>>

(* "⚙️ Settings" *)
SETTINGS_TEXT ==
    <<9881, 65039, 32, 83, 101, 116, 116, 105, 110, 103, 115>>

(* "❌ Cancel" *)
CANCEL_TEXT ==
    <<10060, 32, 67, 97, 110, 99, 101, 108>>

(* "⬅️ Back" *)
BACK_TEXT ==
    <<11013, 65039, 32, 66, 97, 99, 107>>

(* "📏 Position Settings" *)
CUSTOM_SPACING_TEXT ==
    <<128207, 32, 80, 111, 115, 105, 116, 105, 111, 110, 32, 83, 101, 116,
      116, 105, 110, 103, 115>>

(* "💾 Presets" *)
PRESETS_TEXT ==
    <<128190, 32, 80, 114, 101, 115, 101, 116, 115>>

(* "💾 Save as Preset" *)
SAVE_PRESET_TEXT ==
    <<128190, 32, 83, 97, 118, 101, 32, 97, 115, 32, 80, 114, 101, 115, 101,
      116>>

(* "✅ Done" *)
DONE_TEXT ==
    <<9989, 32, 68, 111, 110, 101>>

(* "🗑️ Delete Preset" *)
DELETE_PRESET_TEXT ==
    <<128465, 65039, 32, 68, 101, 108, 101, 116, 101, 32, 80, 114, 101, 115,
      101, 116>>

(* "✏️ Edit Preset" *)
EDIT_PRESET_TEXT ==
    <<9999, 65039, 32, 69, 100, 105, 116, 32, 80, 114, 101, 115, 101, 116>>

(* "◀️ Move Image Left/Right ▶️" *)
IMAGE_X_TEXT ==
    <<9664, 65039, 32, 77, 111, 118, 101, 32, 73, 109, 97, 103, 101, 32, 76,
      101, 102, 116, 47, 82, 105, 103, 104, 116, 32, 9654, 65039>>

(* "🔼 Move Image Up/Down 🔽" *)
IMAGE_Y_TEXT ==
    <<128316, 32, 77, 111, 118, 101, 32, 73, 109, 97, 103, 101, 32, 85, 112,
      47, 68, 111, 119, 110, 32, 128317>>

(* "◀️ Move Text Left/Right ▶️" *)
TEXT_X_TEXT ==
    <<9664, 65039, 32, 77, 111, 118, 101, 32, 84, 101, 120, 116, 32, 76, 101,
      102, 116, 47, 82, 105, 103, 104, 116, 32, 9654, 65039>>

(* "🔼 Move Text Up/Down 🔽" *)
TEXT_Y_TEXT ==
    <<128316, 32, 77, 111, 118, 101, 32, 84, 101, 120, 116, 32, 85, 112, 47,
      68, 111, 119, 110, 32, 128317>>

(* The literals "Preset:", "Edit:" and "Delete:" of the handlers. *)
PRESET_PREFIX == <<80, 114, 101, 115, 101, 116, 58>>
EDIT_PREFIX == <<69, 100, 105, 116, 58>>
DELETE_PREFIX == <<68, 101, 108, 101, 116, 101, 58>>

(* Texts the users of the model type, names of the presets its files hold  *)
(* and MIME types of the documents its users send.                         *)
NameA == <<65>>     \* "A"

NameB == <<66>>     \* "B"

Blank == <<32>>     \* " "

NameOld == <<79, 108, 100>>    \* "Old"

NameKeep == <<75, 101, 101, 112>>    \* "Keep"

NamePart == <<80, 97, 114, 116>>    \* "Part"

IMAGE_JPEG == <<105, 109, 97, 103, 101, 47, 106, 112, 101, 103>>    \* 'image/jpeg'

IMAGE_GIF == <<105, 109, 97, 103, 101, 47, 103, 105, 102>>    \* 'image/gif'

(* "application/pdf" *)
APPLICATION_PDF ==
    <<97, 112, 112, 108, 105, 99, 97, 116, 105, 111, 110, 47, 112, 100, 102>>

----------------------------------------------------------------------------
(* Python dicts: functions whose domain is the set of keys present.        *)

EmptyDict == [k \in {} |-> 0]

Has(d, k) == k \in DOMAIN d

Put(d, k, v) == [x \in (DOMAIN d) \cup {k} |-> IF x = k THEN v ELSE d[x]]

Del(d, k) == [x \in (DOMAIN d) \ {k} |-> d[x]]

(* dict.get(k, default) *)
Get(d, k, default) == IF k \in DOMAIN d THEN d[k] ELSE default

----------------------------------------------------------------------------
(* Python str operations on sequences of code points.                     *)

(* sub stands in text from position i on. *)
StandsAt(text, sub, i) ==
    /\ i >= 1
    /\ Len(text) >= i + Len(sub) - 1
    /\ \A j \in 1..Len(sub) : text[i + j - 1] = sub[j]

StartsWith(text, prefix) == StandsAt(text, prefix, 1)

EndsWith(text, suffix) == StandsAt(text, suffix, Len(text) - Len(suffix) + 1)

(* "sub in text", and re.search of a pattern without special characters. *)
Contains(text, sub) ==
    \E i \in 1..(Len(text) - Len(sub) + 1) : StandsAt(text, sub, i)

(* text.replace(sub, ""): the occurrences of sub, found from left to right *)
(* without overlap, are taken out.                                         *)
RECURSIVE RemoveAll(_, _)
RemoveAll(text, sub) ==
    IF ~Contains(text, sub) THEN text
    ELSE LET first == CHOOSE i \in 1..Len(text) :
                         /\ StandsAt(text, sub, i)
                         /\ \A j \in 1..(i - 1) : ~StandsAt(text, sub, j)
         IN  SubSeq(text, 1, first - 1)
             \o RemoveAll(SubSeq(text, first + Len(sub), Len(text)), sub)

(* The characters str.strip() takes for white space (str.isspace): tab to  *)
(* carriage return, the separators U+001C-U+001F, the space, U+0085,       *)
(* U+00A0, U+1680, U+2000-U+200A, U+2028, U+2029, U+202F, U+205F, U+3000.  *)
Whitespace ==
    (9..13) \cup (28..32) \cup {133, 160, 5760} \cup (8192..8202)
    \cup {8232, 8233, 8239, 8287, 12288}

(* text.strip(): white space removed at both ends; what is left runs from *)
(* the first character that is no white space to the last one.             *)
Strip(text) ==
    IF \A i \in 1..Len(text) : text[i] \in Whitespace THEN <<>>
    ELSE SubSeq(text,
                CHOOSE i \in 1..Len(text) :
                    /\ text[i] \notin Whitespace
                    /\ \A j \in 1..(i - 1) : text[j] \in Whitespace,
                CHOOSE i \in 1..Len(text) :
                    /\ text[i] \notin Whitespace
                    /\ \A j \in (i + 1)..Len(text) : text[j] \in Whitespace)

(* text.split(" (")[0]: what precedes the first " (" *)
BeforeParen(text) ==
    LET hits == {i \in 1..(Len(text) - 1) : text[i] = 32 /\ text[i + 1] = 40}
    IN  IF hits = {} THEN text
        ELSE SubSeq(text, 1, (CHOOSE i \in hits : \A j \in hits : i <= j) - 1)

(* The decimal digits int() reads are those of every script (Unicode       *)
(* category Nd); they come in runs of ten, zero to nine.  DigitZeros holds *)
(* the zero of each run: "0" (48), the Arabic-Indic zero (1632), ...       *)
DigitZeros ==
    {48, 1632, 1776, 1984, 2406, 2534, 2662, 2790, 2918, 3046, 3174, 3302,
     3430, 3558, 3664, 3792, 3872, 4160, 4240, 6112, 6160, 6470, 6608, 6784,
     6800, 6992, 7088, 7232, 7248, 42528, 43216, 43264, 43472, 43504, 43600,
     44016, 65296, 66720, 68912, 69734, 69872, 69942, 70096, 70384, 70736,
     70864, 71248, 71360, 71472, 71904, 72016, 72784, 73040, 73120, 92768,
     92864, 93008, 120782, 120792, 120802, 120812, 120822, 123200, 123632,
     125264, 130032}

Digits == UNION {z..(z + 9) : z \in DigitZeros}

DigitValue(c) == c - (CHOOSE z \in DigitZeros : z <= c /\ c <= z + 9)

RECURSIVE DigitsValue(_)
DigitsValue(ds) ==
    IF ds = <<>> THEN 0
    ELSE 10 * DigitsValue(SubSeq(ds, 1, Len(ds) - 1)) + DigitValue(ds[Len(ds)])

(* A parser that knows no sign: C11 tells it from int().                   *)
ParseIntUnsigned(text) ==
    LET s == Strip(text)
        ok == Len(s) > 0 /\ \A i \in 1..Len(s) : s[i] \in Digits
    IN  [ok |-> ok, value |-> IF ok THEN DigitsValue(s) ELSE 0]

(* A parser that reads 0 where int() raises: C12 tells it from int().      *)
ParseIntLenient(text) ==
    LET s == Strip(text)
        ok == Len(s) > 0 /\ \A i \in 1..Len(s) : s[i] \in Digits
    IN  [ok |-> TRUE, value |-> IF ok THEN DigitsValue(s) ELSE 0]

(* int(text.strip()): an optional sign ("-" is 45, "+" is 43), then digits *)
(* in which single underscores (95) may stand between two digits ("1_0" is *)
(* 10); anything else raises ValueError (ok = FALSE).                      *)
ParseInt(text) ==
    LET s == Strip(text)
        signed == Len(s) > 0 /\ s[1] \in {45, 43}
        ds == IF signed THEN Tail(s) ELSE s
        ok == /\ Len(ds) > 0
              /\ \A i \in 1..Len(ds) : ds[i] \in Digits \cup {95}
              /\ ds[1] \in Digits
              /\ ds[Len(ds)] \in Digits
              /\ \A i \in 1..(Len(ds) - 1) : ~(ds[i] = 95 /\ ds[i + 1] = 95)
        digits == SelectSeq(ds, LAMBDA c : c \in Digits)
    IN  [ok |-> ok,
         value |-> IF ~ok THEN 0
                   ELSE IF signed /\ s[1] = 45 THEN 0 - DigitsValue(digits)
                   ELSE DigitsValue(digits)]

(* str(n) for n >= 0: its decimal digits. *)
RECURSIVE NaturalDigits(_)
NaturalDigits(n) ==
    IF n < 10 THEN <<48 + n>>
    ELSE NaturalDigits(n \div 10) \o <<48 + (n % 10)>>

(* str(v), as the f-strings of the keyboards format an offset. *)
Decimal(v) == IF v < 0 THEN <<45>> \o NaturalDigits(0 - v) ELSE NaturalDigits(v)

----------------------------------------------------------------------------
(* What a handler leaves behind: the session store, the preset file, the   *)
(* messages it sent, the state it returns, whether it raised instead of    *)
(* returning (python-telegram-bot then logs the error and keeps the        *)
(* conversation where it was), and whether it fetched the font and left    *)
(* boldonse.ttf on the disk (font; only process_name does).                *)

Result(ud, pf, out, ret) ==
    [ud |-> ud, pf |-> pf, out |-> out, ret |-> ret, raised |-> FALSE,
     font |-> FALSE]

Raised(ud, pf, out) ==
    [ud |-> ud, pf |-> pf, out |-> out, ret |-> END, raised |-> TRUE,
     font |-> FALSE]

(* update.message.reply_text(...): the tag names the text that is sent. *)
Text(tag) == [to |-> "user", kind |-> "text", body |-> tag]

(* reply_document / bot.send_document: the body is the encoding. *)
Document(to, format) == [to |-> to, kind |-> "document", body |-> format]

(* "if user_id not in user_data: user_data[user_id] = {}" *)
EnsureUser(ud, u) == IF Has(ud, u) THEN ud ELSE Put(ud, u, EmptyDict)

(* A session that is given no spacing: C39 tells it from the default of    *)
(* lines 209-211.                                                          *)
EnsureSpacingAbsent(ud, u) == EnsureUser(ud, u)

(* "if 'spacing' not in user_data[user_id]: ... = DEFAULT_SPACING.copy()" *)
EnsureSpacing(ud, u) ==
    LET ud1 == EnsureUser(ud, u)
    IN  IF Has(ud1[u], "spacing") THEN ud1
        ELSE Put(ud1, u, Put(ud1[u], "spacing", DEFAULT_SPACING))

(* user_data[user_id][field] = value *)
SetField(ud, u, field, value) == Put(ud, u, Put(ud[u], field, value))

(* A copy that fills nothing in: C28 tells it from the "missing keys"      *)
(* lines of the consumers (443-453, 573-581, 736-744, 1304-1312).          *)
FillNothing(spacing) == spacing

(* The four "if key not in spacing: spacing[key] = 0" of the handlers. *)
FillMissing(spacing) ==
    [k \in (DOMAIN spacing) \cup SPACING_KEYS |->
        IF k \in DOMAIN spacing THEN spacing[k] ELSE 0]

----------------------------------------------------------------------------
(* The preset repository.  io says which file operations succeed during    *)
(* this update: io.read (open and json.load in load_presets), io.migrate   *)
(* (the rewrite inside load_presets) and io.write (save_presets), and,     *)
(* for a write that fails, whether it had opened the file (io.opened).     *)
(* The file is a record: whether it exists, whether its content is a JSON  *)
(* document (valid) and the presets the document holds (data).  The        *)
(* same record says which calls of the job succeed: io.download (get_file  *)
(* and download_to_memory), io.decode_main and io.decode_ref (Image.open), *)
(* io.send_user (reply_document) and io.send_group (bot.send_document),    *)
(* which replies of process_name go out: io.reply (line 918),             *)
(* io.reply_note (line 1101), io.reply_done (line 1116), io.reply_error    *)
(* (line 1126) and io.reply_retry (line 1134), and whether download_font() *)
(* of line 998, when it runs, leaves boldonse.ttf behind (io.font).        *)

(* json.dump and json.load (lines 71, 90, 106) on a preset document: an    *)
(* object of objects whose names are strings and whose offsets are         *)
(* integers.  A string is written between quotes (34); its quotes,         *)
(* backslashes (92) and the characters \n \r \t \b \f are escaped with a   *)
(* backslash, and every other character outside " " .. "~" is written as   *)
(* \u and four hexadecimal digits, a character beyond U+FFFF as the two    *)
(* halves of its surrogate pair (ensure_ascii).  An integer is its decimal *)
(* digits with a sign.                                                     *)

(* "0" .. "9", "a" .. "f" *)
HexDigit(n) == IF n < 10 THEN 48 + n ELSE 87 + n

(* "\uxxxx" *)
UEscape(n) ==
    <<92, 117, HexDigit(n \div 4096), HexDigit((n \div 256) % 16),
      HexDigit((n \div 16) % 16), HexDigit(n % 16)>>

EscapeChar(c) ==
    IF c = 34 THEN <<92, 34>>
    ELSE IF c = 92 THEN <<92, 92>>
    ELSE IF c = 10 THEN <<92, 110>>
    ELSE IF c = 13 THEN <<92, 114>>
    ELSE IF c = 9 THEN <<92, 116>>
    ELSE IF c = 12 THEN <<92, 102>>
    ELSE IF c = 8 THEN <<92, 98>>
    ELSE IF c \in 32..126 THEN <<c>>
    ELSE IF c < 65536 THEN UEscape(c)
    ELSE UEscape(55296 + ((c - 65536) \div 1024))
         \o UEscape(56320 + ((c - 65536) % 1024))

RECURSIVE EscapeJson(_)
EscapeJson(s) ==
    IF s = <<>> THEN <<>> ELSE EscapeChar(Head(s)) \o EscapeJson(Tail(s))

(* The value of a hexadecimal digit of either case, -1 for another         *)
(* character.                                                              *)
HexValue(c) ==
    IF c \in 48..57 THEN c - 48
    ELSE IF c \in 97..102 THEN c - 87
    ELSE IF c \in 65..70 THEN c - 55
    ELSE 0 - 1

(* Four hexadecimal digits stand at t[i..i+3], and their value. *)
IsHex4(t, i) == Len(t) >= i + 3 /\ \A j \in i..(i + 3) : HexValue(t[j]) >= 0

Hex4Value(t, i) ==
    4096 * HexValue(t[i]) + 256 * HexValue(t[i + 1])
    + 16 * HexValue(t[i + 2]) + HexValue(t[i + 3])

(* The character the escape "\c" stands for: the quote, the backslash and  *)
(* the slash themselves, b f n r t; -1 when json.load knows no such escape. *)
UnescapeChar(c) ==
    IF c \in {34, 92, 47} THEN c
    ELSE IF c = 98 THEN 8
    ELSE IF c = 102 THEN 12
    ELSE IF c = 110 THEN 10
    ELSE IF c = 114 THEN 13
    ELSE IF c = 116 THEN 9
    ELSE 0 - 1

(* What json.load reads at the head of the text between the quotes of a    *)
(* string: the character c and the number n of characters it is written    *)
(* with; n is 0 where json.load raises (an unknown escape, a backslash at  *)
(* the end, a bare quote or a control character below U+0020).  The escape *)
(* of a high surrogate that the escape of a low surrogate follows is read  *)
(* with it as one character.                                               *)
UnescapeStep(t) ==
    IF Head(t) = 92
    THEN IF Len(t) >= 2 /\ UnescapeChar(t[2]) >= 0
         THEN [n |-> 2, c |-> UnescapeChar(t[2])]
         ELSE IF Len(t) >= 2 /\ t[2] = 117 /\ IsHex4(t, 3)
         THEN IF /\ Hex4Value(t, 3) \in 55296..56319
                 /\ Len(t) >= 8 /\ t[7] = 92 /\ t[8] = 117
              THEN IF ~IsHex4(t, 9) THEN [n |-> 0, c |-> 0]
                   ELSE IF Hex4Value(t, 9) \in 56320..57343
                   THEN [n |-> 12,
                         c |-> 65536 + (Hex4Value(t, 3) - 55296) * 1024
                                     + (Hex4Value(t, 9) - 56320)]
                   ELSE [n |-> 6, c |-> Hex4Value(t, 3)]
              ELSE [n |-> 6, c |-> Hex4Value(t, 3)]
         ELSE [n |-> 0, c |-> 0]
    ELSE IF Head(t) = 34 \/ Head(t) < 32 THEN [n |-> 0, c |-> 0]
    ELSE [n |-> 1, c |-> Head(t)]

(* The text between the quotes of a JSON string, decoded; ok is FALSE      *)
(* where json.load raises.  Decoded continues after the step at the head.  *)
RECURSIVE UnescapeJson(_), Decoded(_, _)
UnescapeJson(t) ==
    IF t = <<>> THEN [ok |-> TRUE, value |-> <<>>]
    ELSE Decoded(UnescapeStep(t), t)

Decoded(step, t) ==
    IF step.n = 0 THEN [ok |-> FALSE, value |-> <<>>]
    ELSE LET rest == UnescapeJson(SubSeq(t, step.n + 1, Len(t)))
         IN  [ok |-> rest.ok,
              value |-> IF rest.ok THEN <<step.c>> \o rest.value ELSE <<>>]

JsonString(s) == <<34>> \o EscapeJson(s) \o <<34>>

(* A JSON string read back: the quotes at both ends and the text between.  *)
ParseJsonString(t) ==
    IF Len(t) >= 2 /\ t[1] = 34 /\ t[Len(t)] = 34
    THEN UnescapeJson(SubSeq(t, 2, Len(t) - 1))
    ELSE [ok |-> FALSE, value |-> <<>>]

(* An encoder that drops the sign: C25 tells it from json.dump.            *)
JsonIntUnsigned(v) == NaturalDigits(IF v < 0 THEN 0 - v ELSE v)

JsonInt(v) == IF v < 0 THEN <<45>> \o NaturalDigits(0 - v) ELSE NaturalDigits(v)

(* A JSON integer read back: "-"?, then "0" or digits "0".."9" that do not *)
(* start with "0"; ok is FALSE for a text that is no such number.          *)
ParseJsonInt(t) ==
    LET ds == IF t # <<>> /\ Head(t) = 45 THEN Tail(t) ELSE t
        ok == /\ Len(ds) > 0
              /\ \A i \in 1..Len(ds) : ds[i] \in 48..57
              /\ Len(ds) > 1 => ds[1] # 48
    IN  [ok |-> ok,
         value |-> IF ~ok THEN 0
                   ELSE IF Head(t) = 45 THEN 0 - DigitsValue(ds)
                   ELSE DigitsValue(ds)]

(* json.dump(presets, f): the document written, a sequence of members      *)
(* [name, value], one per preset, the name a JSON string and the offsets   *)
(* JSON integers.  A Python dict lists its keys in the order they were put *)
(* in, which the dicts of the model do not record: the members are in an   *)
(* order of the names.                                                     *)
RECURSIVE json_dump(_)
json_dump(presets) ==
    IF DOMAIN presets = {} THEN <<>>
    ELSE LET n == CHOOSE n \in DOMAIN presets : TRUE
         IN  <<[name |-> JsonString(n),
                value |-> [k \in DOMAIN presets[n] |->
                              [f \in DOMAIN presets[n][k] |->
                                  JsonInt(presets[n][k][f])]]]>>
             \o json_dump(Del(presets, n))

(* The offsets of a member of a document, read. *)
ParseJsonRecord(record) ==
    [k \in DOMAIN record |->
        [f \in DOMAIN record[k] |-> ParseJsonInt(record[k][f]).value]]

(* json.load(f): the presets read from a document; ok is FALSE where       *)
(* json.load raises (a name or an offset it cannot read).  Of two members  *)
(* whose names read the same the later one counts.                         *)
json_load(document) ==
    LET ok == \A i \in DOMAIN document :
                 /\ ParseJsonString(document[i].name).ok
                 /\ \A k \in DOMAIN document[i].value :
                       \A f \in DOMAIN document[i].value[k] :
                           ParseJsonInt(document[i].value[k][f]).ok
    IN  IF ~ok THEN [ok |-> FALSE, value |-> EmptyDict]
        ELSE [ok |-> TRUE,
              value |->
                [n \in {ParseJsonString(document[i].name).value
                           : i \in DOMAIN document} |->
                    ParseJsonRecord(
                        document[CHOOSE i \in DOMAIN document :
                                    /\ ParseJsonString(document[i].name).value = n
                                    /\ \A j \in DOMAIN document :
                                          ParseJsonString(document[j].name).value = n
                                          => j <= i].value)]]

(* The file after json.dump(presets, f) has written it: what json.load     *)
(* reads from the document.                                                *)
Written(presets) ==
    [exists |-> TRUE,
     valid |-> json_load(json_dump(presets)).ok,
     data |-> json_load(json_dump(presets)).value]

(* Line 78: the record has 'top' and lacks 'image_x'. *)
IsLegacy(preset_data) ==
    /\ Has(preset_data, "spacing")
    /\ Has(preset_data["spacing"], "top")
    /\ ~Has(preset_data["spacing"], "image_x")

Migrate(data) ==
    [n \in DOMAIN data |->
        IF IsLegacy(data[n]) THEN Put(data[n], "spacing", DEFAULT_SPACING)
        ELSE data[n]]

(* The file a write leaves that opened it (open(PRESETS_FILE, 'w') cuts it *)
(* to nothing) and failed before the document was written out: a file     *)
(* that is there and that json.load cannot read.                           *)
Truncated == [exists |-> TRUE, valid |-> FALSE, data |-> EmptyDict]

(* A load that migrates in memory only: C26 tells it from lines 87-93.     *)
load_presets_unwritten(pf, io) ==
    [presets |-> IF pf.exists /\ pf.valid /\ io.read
                 THEN [n \in DOMAIN pf.data |->
                          IF /\ "spacing" \in DOMAIN pf.data[n]
                             /\ "top" \in DOMAIN pf.data[n]["spacing"]
                             /\ "image_x" \notin DOMAIN pf.data[n]["spacing"]
                          THEN [spacing |-> DEFAULT_SPACING]
                          ELSE pf.data[n]]
                 ELSE EmptyDict,
     pf |-> pf]

(* load_presets(): the presets it returns and the file it leaves.  A file  *)
(* that is absent, cannot be opened or cannot be parsed gives {}.  The     *)
(* rewrite of a migrated document that fails is logged and the migrated    *)
(* presets are returned all the same; the file is then as it was (open     *)
(* failed) or truncated (the write failed after open).                     *)
load_presets(pf, io) ==
    IF pf.exists /\ pf.valid /\ io.read
    THEN LET presets == Migrate(pf.data)
             migrated == \E n \in DOMAIN pf.data : IsLegacy(pf.data[n])
         IN  [presets |-> presets,
              pf |-> IF ~migrated THEN pf
                     ELSE IF io.migrate
                     THEN Written(presets)
                     ELSE IF io.opened THEN Truncated
                     ELSE pf]
    ELSE [presets |-> EmptyDict, pf |-> pf]

(* save_presets(presets): whether it succeeded and the file it leaves; a   *)
(* failure leaves the file as it was (open failed) or truncated (the write *)
(* failed after open).                                                     *)
save_presets(pf, presets, io) ==
    IF io.write
    THEN [ok |-> TRUE,
          pf |-> Written(presets)]
    ELSE [ok |-> FALSE, pf |-> IF io.opened THEN Truncated ELSE pf]

----------------------------------------------------------------------------
(* The handlers.  Each takes the user u, the message m, the success of the *)
(* file operations io, the session store ud and the preset file pf, and    *)
(* yields a Result.                                                        *)

start(u, m, io, ud, pf) == Result(ud, pf, <<Text("welcome")>>, END)

(* A settings menu that overwrites the offsets a session has: C18 tells it *)
(* from lines 210-211.                                                     *)
settings_resets(u, m, io, ud, pf) ==
    Result(SetField(EnsureUser(ud, u), u, "spacing", DEFAULT_SPACING), pf,
           <<Text("settings menu")>>, SETTINGS)

settings(u, m, io, ud, pf) ==
    Result(EnsureSpacing(ud, u), pf, <<Text("settings menu")>>, SETTINGS)

custom_spacing_menu(u, m, io, ud, pf) ==
    Result(EnsureSpacing(ud, u), pf, <<Text("position menu")>>, CUSTOM_SPACING)

(* Lines 333-368: the offset a direction label stands for, "" if none. *)
PositionKey(text) ==
    IF StartsWith(text, IMAGE_X_TEXT) THEN "image_x"
    ELSE IF StartsWith(text, IMAGE_Y_TEXT) THEN "image_y"
    ELSE IF StartsWith(text, TEXT_X_TEXT) THEN "text_x"
    ELSE IF StartsWith(text, TEXT_Y_TEXT) THEN "text_y"
    ELSE ""

handle_direction_selection(u, m, io, ud, pf) ==
    IF m.text = BACK_TEXT THEN settings(u, m, io, ud, pf)
    ELSE LET ud1 == EnsureSpacing(ud, u)
             position_key == PositionKey(m.text)
         IN  IF position_key # ""
             THEN Result(SetField(ud1, u, "current_spacing_key", position_key),
                         pf, <<Text("enter a value")>>, SPACING_INPUT)
             ELSE custom_spacing_menu(u, m, io, ud1, pf)

handle_spacing_input(u, m, io, ud, pf) ==
    IF m.text = BACK_TEXT THEN custom_spacing_menu(u, m, io, ud, pf)
    ELSE LET ud1 == IF Has(ud, u) THEN ud
                    ELSE Put(ud, u, Put(EmptyDict, "spacing", DEFAULT_SPACING))
             current_key == Get(ud1[u], "current_spacing_key", "image_x")
             parsed == ParseInt(m.text)
         IN  IF parsed.ok
             THEN IF Has(ud1[u], "spacing")
                  THEN custom_spacing_menu(u, m, io,
                           SetField(ud1, u, "spacing",
                               Put(ud1[u]["spacing"], current_key, parsed.value)),
                           pf)
                  ELSE Raised(ud1, pf, <<>>)   \* KeyError: 'spacing'
             ELSE Result(ud1, pf, <<Text("enter a valid number")>>, SPACING_INPUT)

presets_menu(u, m, io, ud, pf) ==
    LET loaded == load_presets(pf, io)
    IN  Result(ud, loaded.pf, <<Text("presets menu")>>, PRESETS)

edit_preset_select(u, m, io, ud, pf) ==
    IF m.text = BACK_TEXT THEN settings(u, m, io, ud, pf)
    ELSE LET loaded == load_presets(pf, io)
         IN  IF DOMAIN loaded.presets = {}
             THEN Result(ud, loaded.pf, <<Text("no presets to edit")>>, PRESETS)
             ELSE Result(ud, loaded.pf, <<Text("select preset to edit")>>, EDIT_PRESET)

(* An edit that remembers the name as the last preset, not as the preset   *)
(* being edited: C16 tells it from line 585.                               *)
edit_preset_as_load(u, m, io, ud, pf) ==
    LET preset_name == Strip(BeforeParen(RemoveAll(m.text, EDIT_PREFIX)))
        loaded == load_presets(pf, io)
    IN  IF Has(loaded.presets, preset_name)
        THEN Result(SetField(SetField(EnsureUser(ud, u), u, "spacing",
                                 FillMissing(loaded.presets[preset_name]["spacing"])),
                             u, "last_preset", preset_name),
                    loaded.pf, <<Text("editing preset")>>, SETTINGS)
        ELSE Result(ud, loaded.pf, <<Text("preset not found")>>, EDIT_PRESET)

edit_preset(u, m, io, ud, pf) ==
    IF m.text = BACK_TEXT THEN presets_menu(u, m, io, ud, pf)
    ELSE IF StartsWith(m.text, EDIT_PREFIX)
    THEN LET preset_name == Strip(BeforeParen(RemoveAll(m.text, EDIT_PREFIX)))
             loaded == load_presets(pf, io)
         IN  IF Has(loaded.presets, preset_name)
             THEN LET preset_data == loaded.presets[preset_name]
                      ud1 == EnsureUser(ud, u)
                  IN  IF Has(preset_data, "spacing")
                      THEN Result(
                               SetField(
                                   SetField(ud1, u, "spacing",
                                            FillMissing(preset_data["spacing"])),
                                   u, "editing_preset", preset_name),
                               loaded.pf, <<Text("editing preset")>>, SETTINGS)
                      ELSE Result(ud1, loaded.pf,
                                  <<Text("invalid preset data")>>, EDIT_PRESET)
             ELSE Result(ud, loaded.pf, <<Text("preset not found")>>, EDIT_PRESET)
    ELSE Result(ud, pf, <<Text("select a preset to edit")>>, EDIT_PRESET)

save_preset_prompt(u, m, io, ud, pf) ==
    IF Has(ud, u) /\ Has(ud[u], "editing_preset")
    THEN Result(ud, pf, <<Text("editing: save or rename")>>, PRESET_NAME)
    ELSE Result(ud, pf, <<Text("enter a preset name")>>, PRESET_NAME)

(* A save that leaves the editing flag in place: C14 tells it from lines   *)
(* 679-680.                                                                *)
save_preset_keeps_editing(u, m, io, ud, pf) ==
    LET preset_name == Strip(m.text)
        presets == Put(load_presets(pf, io).presets, preset_name,
                       Put(EmptyDict, "spacing", ud[u]["spacing"]))
    IN  Result(SetField(ud, u, "last_preset", preset_name),
               save_presets(pf, presets, io).pf, <<Text("preset saved")>>, SETTINGS)

save_preset(u, m, io, ud, pf) ==
    IF m.text = BACK_TEXT THEN settings(u, m, io, ud, pf)
    ELSE LET preset_name == Strip(m.text)
         IN  IF preset_name = <<>>
             THEN Result(ud, pf, <<Text("name cannot be empty")>>, PRESET_NAME)
             ELSE IF Has(ud, u) /\ Has(ud[u], "spacing")
             THEN LET loaded == load_presets(pf, io)
                      presets == Put(loaded.presets, preset_name,
                                     Put(EmptyDict, "spacing", ud[u]["spacing"]))
                      saved == save_presets(loaded.pf, presets, io)
                  IN  IF saved.ok
                      THEN Result(
                               SetField(Put(ud, u, Del(ud[u], "editing_preset")),
                                        u, "last_preset", preset_name),
                               saved.pf, <<Text("preset saved")>>, SETTINGS)
                      ELSE Result(ud, saved.pf,
                                  <<Text("error saving preset")>>, SETTINGS)
             ELSE Result(ud, pf, <<Text("no spacing to save")>>, SETTINGS)

done_settings(u, m, io, ud, pf) ==
    Result(ud, pf, <<Text("settings saved")>>, END)

(* A start that always falls back to the default offsets: C4 tells it from *)
(* lines 726-751.                                                          *)
start_new_image_resets(u, m, io, ud, pf) ==
    Result(SetField(EnsureUser(ud, u), u, "spacing", DEFAULT_SPACING), pf,
           <<Text("using last preset, send main image")>>, FIRST_IMAGE)

(* Lines 726-751 of start_new_image: the last preset, if the session names *)
(* one that is stored with a 'spacing', replaces the session's spacing.    *)
start_new_image(u, m, io, ud, pf) ==
    IF Has(ud, u) /\ Has(ud[u], "last_preset")
    THEN LET last_preset == ud[u]["last_preset"]
             loaded == load_presets(pf, io)
         IN  IF /\ Has(loaded.presets, last_preset)
                /\ Has(loaded.presets[last_preset], "spacing")
             THEN Result(SetField(ud, u, "spacing",
                             FillMissing(loaded.presets[last_preset]["spacing"])),
                         loaded.pf, <<Text("using last preset, send main image")>>,
                         FIRST_IMAGE)
             ELSE Result(ud, loaded.pf, <<Text("send main image")>>, FIRST_IMAGE)
    ELSE Result(ud, pf, <<Text("send main image")>>, FIRST_IMAGE)

(* 'image/png' (lines 941 and 943) *)
IMAGE_PNG == <<105, 109, 97, 103, 101, 47, 112, 110, 103>>

(* mime_type.startswith('image/') *)
IsImageMime(mime) == StartsWith(mime, <<105, 109, 97, 103, 101, 47>>)

(* The PhotoSize or Document object kept in the session. *)
Media(m) == [kind |-> m.kind, mime |-> m.mime]

(* A first step that moves on without keeping the image: C5 tells it from  *)
(* lines 802-814.                                                          *)
first_image_forgetful(u, m, io, ud, pf) ==
    Result(SetField(EnsureSpacing(ud, u), u, "user_info", [id |-> u]), pf,
           <<Text("send reference image")>>, SECOND_IMAGE)

first_image(u, m, io, ud, pf) ==
    LET ud1 == SetField(EnsureSpacing(ud, u), u, "user_info", [id |-> u])
    IN  IF m.kind = "photo"
        THEN Result(SetField(SetField(ud1, u, "first_photo", Media(m)),
                             u, "first_is_document", FALSE),
                    pf, <<Text("send reference image")>>, SECOND_IMAGE)
        ELSE IF m.kind = "document" /\ IsImageMime(m.mime)
        THEN Result(SetField(SetField(SetField(ud1, u, "first_photo", Media(m)),
                                      u, "first_is_document", TRUE),
                             u, "first_mime_type", m.mime),
                    pf, <<Text("send reference image")>>, SECOND_IMAGE)
        ELSE Result(ud1, pf, <<Text("please send an image")>>, FIRST_IMAGE)

cancel(u, m, io, ud, pf) ==
    LET ud1 == IF Has(ud, u)
               THEN Put(ud, u, IF Has(ud[u], "spacing")
                               THEN Put(EmptyDict, "spacing", ud[u]["spacing"])
                               ELSE EmptyDict)
               ELSE ud
    IN  Result(ud1, pf, <<Text("operation cancelled")>>, END)

second_image(u, m, io, ud, pf) ==
    IF m.kind = "text" /\ m.text = CANCEL_TEXT THEN cancel(u, m, io, ud, pf)
    ELSE IF m.kind = "photo"
    THEN IF ~Has(ud, u) THEN Raised(ud, pf, <<>>)   \* KeyError: user.id
         ELSE Result(SetField(SetField(ud, u, "second_photo", Media(m)),
                              u, "second_is_document", FALSE),
                     pf, <<Text("send the text")>>, NAME)
    ELSE IF m.kind = "document" /\ IsImageMime(m.mime)
    THEN IF ~Has(ud, u) THEN Raised(ud, pf, <<>>)   \* KeyError: user.id
         ELSE Result(SetField(SetField(SetField(ud, u, "second_photo", Media(m)),
                                       u, "second_is_document", TRUE),
                              u, "second_mime_type", m.mime),
                     pf, <<Text("send the text")>>, NAME)
    ELSE Result(ud, pf, <<Text("please send an image")>>, SECOND_IMAGE)

(* A test that trusts the MIME types alone: C24 tells it from the          *)
(* *_is_document flags of lines 941-944.                                   *)
HasTransparencyByMime(session) ==
    \/ Get(session, "first_mime_type", <<>>) = IMAGE_PNG
    \/ Get(session, "second_mime_type", <<>>) = IMAGE_PNG

(* Lines 941-945. *)
HasTransparency(session) ==
    \/ /\ Get(session, "first_is_document", FALSE)
       /\ Get(session, "first_mime_type", <<>>) = IMAGE_PNG
    \/ /\ Get(session, "second_is_document", FALSE)
       /\ Get(session, "second_mime_type", <<>>) = IMAGE_PNG

(* Lines 1057-1066 and 1073-1078: the encoding of both copies. *)
OutputFormat(has_transparency) == IF has_transparency THEN "PNG" ELSE "JPEG"

(* A decoder that accepts every download: C7 tells it from Image.open.     *)
OpenImagesUnchecked(io) == TRUE

(* Lines 947-955: Image.open of the two downloads. *)
OpenImages(io) == io.decode_main /\ io.decode_ref

(* A group delivery that fails silently: C8 tells it from lines 1099-1101. *)
GroupDeliverySilent(io, format) ==
    IF io.send_group THEN <<Document("group", format)>> ELSE <<>>

(* Lines 1087-1101: the copy for the group; a failure is caught and the    *)
(* user gets a note instead.                                               *)
GroupDelivery(io, format) ==
    IF io.send_group
    THEN <<Document("group", format)>>
    ELSE <<Text("could not share to the group")>>

(* Lines 1124-1139: the except branch of process_name; sent is what the    *)
(* try block had sent when it raised and e the error the user is shown.    *)
ProcessingFailed(u, ud, pf, sent, e) ==
    Result(ud, pf, sent \o <<Text(e), Text("click below to try again")>>, END)

(* A clean-up that keeps the whole session: C1 tells it from lines         *)
(* 1103-1108.                                                              *)
SettingsDataKeepsJob(session) == session

(* Lines 1103-1108: what the session keeps after a job. *)
SettingsData(session) ==
    IF Has(session, "spacing")
    THEN Put(EmptyDict, "spacing", session["spacing"])
    ELSE EmptyDict

process_name(u, m, io, ud, pf) ==
    IF m.text = CANCEL_TEXT THEN cancel(u, m, io, ud, pf)
    ELSE IF ~io.reply THEN Raised(ud, pf, <<>>)    \* line 918, before the try
    ELSE LET processing == <<Text("processing")>>
             \* the except branch, whose own replies may raise
             failed(ud1, sent, e) ==
                IF ~io.reply_error THEN Raised(ud1, pf, sent)        \* line 1126
                ELSE IF ~io.reply_retry
                THEN Raised(ud1, pf, sent \o <<Text(e)>>)            \* line 1134
                ELSE ProcessingFailed(u, ud1, pf, sent, e)
             \* lines 997-1000: download_font() ran if the file was absent
             fetched(r) == [r EXCEPT !.font = io.font]
         IN  IF \/ ~Has(ud, u)
                \/ ~Has(ud[u], "first_photo")
                \/ ~Has(ud[u], "second_photo")
             THEN failed(ud, processing, "error: KeyError")
             ELSE IF ~io.download            \* get_file or download_to_memory
             THEN failed(ud, processing, "error: download failed")
             ELSE IF ~OpenImages(io)
             THEN failed(ud, processing, "error: cannot identify image file")
             ELSE IF ~Has(ud[u], "spacing")
             THEN failed(ud, processing, "error: KeyError")
             ELSE IF ~io.send_user           \* reply_document
             THEN fetched(failed(ud, processing, "error: delivery failed"))
             ELSE LET format == OutputFormat(HasTransparency(ud[u]))
                      sent == processing \o <<Document("user", format)>>
                      cleaned == Put(ud, u, SettingsData(ud[u]))
                  IN  IF ~Has(ud[u], "user_info")
                      THEN fetched(failed(ud, sent, "error: KeyError"))
                      ELSE IF ~io.send_group /\ ~io.reply_note   \* line 1101
                      THEN fetched(failed(ud, sent, "error: delivery failed"))
                      ELSE IF ~io.reply_done                     \* line 1116
                      THEN fetched(failed(cleaned,
                                          sent \o GroupDelivery(io, format),
                                          "error: delivery failed"))
                      ELSE fetched(Result(
                               cleaned, pf,
                               sent \o GroupDelivery(io, format)
                               \o <<Text("here is your merged image")>>,
                               END))

delete_preset_select(u, m, io, ud, pf) ==
    IF m.text = BACK_TEXT THEN settings(u, m, io, ud, pf)
    ELSE LET loaded == load_presets(pf, io)
         IN  IF DOMAIN loaded.presets = {}
             THEN Result(ud, loaded.pf, <<Text("no presets to delete")>>, PRESETS)
             ELSE Result(ud, loaded.pf, <<Text("select preset to delete")>>,
                         DELETE_PRESET)

(* A delete that answers without writing the file: C15 tells it from lines *)
(* 1235-1238.                                                              *)
delete_preset_unsaved(u, m, io, ud, pf) ==
    Result(ud, pf, <<Text("preset deleted")>>, DELETE_PRESET)

delete_preset(u, m, io, ud, pf) ==
    IF m.text = BACK_TEXT THEN presets_menu(u, m, io, ud, pf)
    ELSE IF StartsWith(m.text, DELETE_PREFIX)
    THEN LET preset_name == Strip(BeforeParen(RemoveAll(m.text, DELETE_PREFIX)))
             loaded == load_presets(pf, io)
         IN  IF Has(loaded.presets, preset_name)
             THEN LET saved == save_presets(loaded.pf,
                                            Del(loaded.presets, preset_name), io)
                  IN  IF saved.ok
                      THEN Result(ud, saved.pf, <<Text("preset deleted")>>,
                                  DELETE_PRESET)
                      ELSE Result(ud, saved.pf, <<Text("error deleting preset")>>,
                                  DELETE_PRESET)
             ELSE Result(ud, loaded.pf, <<Text("preset not found")>>, DELETE_PRESET)
    ELSE Result(ud, pf, <<Text("select a preset to delete")>>, DELETE_PRESET)

(* A load that takes any name for a stored one: C13 and C17 tell it from   *)
(* lines 1295-1335.                                                        *)
load_preset_any_name(u, m, io, ud, pf, context) ==
    Result(SetField(EnsureUser(ud, u), u, "spacing", DEFAULT_SPACING), pf,
           <<Text("preset loaded")>>, SETTINGS)

(* context is context.user_data: command_handler leaves the name it cut    *)
(* out of the text under 'selected_preset'; load_preset removes it.        *)
load_preset(u, m, io, ud, pf, context) ==
    LET identified == Has(context, "selected_preset")
                      \/ StartsWith(m.text, PRESET_PREFIX)
        preset_name == IF Has(context, "selected_preset")
                       THEN context["selected_preset"]
                       ELSE Strip(BeforeParen(RemoveAll(m.text, PRESET_PREFIX)))
        loaded == load_presets(pf, io)
    IN  IF ~identified
        THEN Result(ud, pf, <<Text("could not identify preset")>>, SETTINGS)
        ELSE IF Has(loaded.presets, preset_name)
        THEN LET preset_data == loaded.presets[preset_name]
                 ud1 == EnsureUser(ud, u)
             IN  Result(
                     IF Has(preset_data, "spacing")
                     THEN SetField(
                              SetField(ud1, u, "spacing",
                                       FillMissing(preset_data["spacing"])),
                              u, "last_preset", preset_name)
                     ELSE SetField(ud1, u, "spacing", DEFAULT_SPACING),
                     loaded.pf, <<Text("preset loaded")>>, SETTINGS)
        ELSE Result(ud, loaded.pf, <<Text("preset not found")>>, SETTINGS)

(* The catch-all text handler registered after the conversation handler.   *)
(* It is a plain MessageHandler: what it returns changes no conversation.  *)
command_handler(u, m, io, ud, pf) ==
    LET text == m.text
    IN  IF text = CREATE_IMAGE_TEXT THEN start_new_image(u, m, io, ud, pf)
        ELSE IF text = SETTINGS_TEXT THEN settings(u, m, io, ud, pf)
        ELSE IF text = BACK_TEXT THEN settings(u, m, io, ud, pf)
        ELSE IF text = CUSTOM_SPACING_TEXT THEN custom_spacing_menu(u, m, io, ud, pf)
        ELSE IF text = PRESETS_TEXT THEN presets_menu(u, m, io, ud, pf)
        ELSE IF text = SAVE_PRESET_TEXT THEN save_preset_prompt(u, m, io, ud, pf)
        ELSE IF text = DELETE_PRESET_TEXT THEN delete_preset_select(u, m, io, ud, pf)
        ELSE IF text = EDIT_PRESET_TEXT THEN edit_preset_select(u, m, io, ud, pf)
        ELSE IF text = DONE_TEXT THEN done_settings(u, m, io, ud, pf)
        ELSE IF text = CANCEL_TEXT THEN cancel(u, m, io, ud, pf)
        ELSE IF StartsWith(text, PRESET_PREFIX)
        THEN load_preset(u, m, io, ud, pf,
                 Put(EmptyDict, "selected_preset",
                     Strip(RemoveAll(text, PRESET_PREFIX))))
        ELSE Result(ud, pf, <<>>, END)

----------------------------------------------------------------------------
(* Messages: a text, a photo, a document with its MIME type, or another.   *)

TextMessage(text) == [kind |-> "text", text |-> text, mime |-> <<>>]

PhotoMessage == [kind |-> "photo", text |-> <<>>, mime |-> <<>>]

DocumentMessage(mime) == [kind |-> "document", text |-> <<>>, mime |-> mime]

(* A sticker, a voice note, a location: no text, no photo, no document. *)
OtherMessage == [kind |-> "other", text |-> <<>>, mime |-> <<>>]

(* The user name of the bot that the token of line 1342 belongs to. *)
BOT_USERNAME == <<77, 101, 114, 103, 101, 114, 66, 111, 116>>    \* "MergerBot"

(* The names of the commands the handlers of main() are registered for. *)
START_COMMAND == <<115, 116, 97, 114, 116>>          \* "start"

SETTINGS_COMMAND == <<115, 101, 116, 116, 105, 110, 103, 115>>    \* "settings"

CANCEL_COMMAND == <<99, 97, 110, 99, 101, 108>>     \* "cancel"

(* The characters of a command and of a user name: the Latin letters, the  *)
(* digits and the underscore.                                              *)
CommandChars == (48..57) \cup (65..90) \cup (97..122) \cup {95}

(* The end of the run of CommandChars that starts at text[i]; i - 1 when   *)
(* text[i] is none of them.                                                *)
RunEnd(text, i) ==
    IF \A j \in i..Len(text) : text[j] \in CommandChars THEN Len(text)
    ELSE (CHOOSE j \in i..Len(text) :
              /\ text[j] \notin CommandChars
              /\ \A k \in i..(j - 1) : text[k] \in CommandChars) - 1

(* The length of the bot_command entity Telegram marks at offset 0 of a    *)
(* text, 0 when it marks none: "/" (47), a word of CommandChars and, when  *)
(* "@" (64) and a user name follow the word, these as well.                *)
CommandLength(text) ==
    IF Len(text) < 2 \/ text[1] # 47 \/ text[2] \notin CommandChars THEN 0
    ELSE LET word == RunEnd(text, 2)
         IN  IF /\ word + 2 <= Len(text)
                /\ text[word + 1] = 64
                /\ text[word + 2] \in CommandChars
             THEN RunEnd(text, word + 2)
             ELSE word

(* str.lower() on a word of CommandChars. *)
Lower(word) ==
    [i \in 1..Len(word) |-> IF word[i] \in 65..90 THEN word[i] + 32 ELSE word[i]]

(* filters.TEXT *)
IsText(m) == m.kind = "text"

(* filters.COMMAND: the text starts with a bot command. *)
IsCommand(m) == m.kind = "text" /\ CommandLength(m.text) > 0

(* CommandHandler(name, ...): the command, text[1:entity.length], is split *)
(* at "@"; the word before it, lower-cased, is the name, and the bot the   *)
(* command addresses (this bot when there is no "@") is this bot, compared *)
(* in lower case.                                                          *)
IsCommandNamed(m, name) ==
    /\ IsCommand(m)
    /\ LET command == SubSeq(m.text, 2, CommandLength(m.text))
           word == SubSeq(command, 1, RunEnd(command, 1))
           addressed == IF Len(word) < Len(command)
                        THEN SubSeq(command, Len(word) + 2, Len(command))
                        ELSE BOT_USERNAME
       IN  /\ Lower(word) = name
           /\ Lower(addressed) = Lower(BOT_USERNAME)

(* Whether "$" matches after the first n characters of the text: at the    *)
(* end, or before a newline (10) that is the last character.               *)
AtEnd(text, n) ==
    \/ n = Len(text)
    \/ n = Len(text) - 1 /\ text[Len(text)] = 10

(* filters.Regex("^label$"), a search from the start of the text. *)
MatchesExactly(m, label) ==
    /\ m.kind = "text"
    /\ StartsWith(m.text, label)
    /\ AtEnd(m.text, Len(label))

(* filters.Regex("^label.*$"): "." takes every character but a newline, so *)
(* the rest of the text is one line.                                       *)
MatchesPrefix(m, label) ==
    /\ m.kind = "text"
    /\ StartsWith(m.text, label)
    /\ \E n \in Len(label)..Len(m.text) :
          /\ \A i \in (Len(label) + 1)..n : m.text[i] # 10
          /\ AtEnd(m.text, n)

(* filters.Document.IMAGE *)
IsImageDocument(m) == m.kind = "document" /\ IsImageMime(m.mime)

(* Line 1378: the alternation binds looser than ^ and $, so the pattern is *)
(* "starts with IMAGE_X_TEXT, or contains one of the other three labels,   *)
(* or ends with BACK_TEXT" (or with BACK_TEXT and a last newline).         *)
MatchesDirection(m) ==
    /\ m.kind = "text"
    /\ \/ StartsWith(m.text, IMAGE_X_TEXT)
       \/ Contains(m.text, IMAGE_Y_TEXT)
       \/ Contains(m.text, TEXT_X_TEXT)
       \/ Contains(m.text, TEXT_Y_TEXT)
       \/ EndsWith(m.text, BACK_TEXT)
       \/ EndsWith(m.text, BACK_TEXT \o <<10>>)

(* entry_points, in order (lines 1349-1354); "" when none matches. *)
EntryPoint(m) ==
    IF IsCommandNamed(m, START_COMMAND) THEN "start"
    ELSE IF IsCommandNamed(m, SETTINGS_COMMAND) THEN "settings"
    ELSE IF MatchesExactly(m, CREATE_IMAGE_TEXT) THEN "start_new_image"
    ELSE IF MatchesExactly(m, SETTINGS_TEXT) THEN "settings"
    ELSE ""

(* states[state], in order (lines 1355-1401); "" when none matches. *)
StateHandler(state, m) ==
    CASE state = FIRST_IMAGE ->
            IF m.kind = "photo" \/ IsImageDocument(m) THEN "first_image"
            ELSE IF MatchesExactly(m, CANCEL_TEXT) THEN "cancel"
            ELSE ""
      [] state = SECOND_IMAGE ->
            IF m.kind = "photo" \/ IsImageDocument(m) THEN "second_image"
            ELSE IF MatchesExactly(m, CANCEL_TEXT) THEN "cancel"
            ELSE ""
      [] state = NAME ->
            IF IsText(m) /\ ~IsCommand(m) THEN "process_name" ELSE ""
      [] state = SETTINGS ->
            IF MatchesPrefix(m, CUSTOM_SPACING_TEXT) THEN "custom_spacing_menu"
            ELSE IF MatchesExactly(m, PRESETS_TEXT) THEN "presets_menu"
            ELSE IF MatchesExactly(m, SAVE_PRESET_TEXT) THEN "save_preset_prompt"
            ELSE IF MatchesExactly(m, DONE_TEXT) THEN "done_settings"
            ELSE IF MatchesExactly(m, CREATE_IMAGE_TEXT) THEN "start_new_image"
            ELSE IF MatchesPrefix(m, PRESET_PREFIX) THEN "load_preset"
            ELSE ""
      [] state = CUSTOM_SPACING ->
            IF MatchesDirection(m) THEN "handle_direction_selection" ELSE ""
      [] state = SPACING_INPUT ->
            IF IsText(m) /\ ~IsCommand(m) THEN "handle_spacing_input" ELSE ""
      [] state = PRESET_NAME ->
            IF IsText(m) /\ ~IsCommand(m) THEN "save_preset" ELSE ""
      [] state = PRESETS ->
            IF MatchesPrefix(m, PRESET_PREFIX) THEN "load_preset"
            ELSE IF MatchesExactly(m, SAVE_PRESET_TEXT) THEN "save_preset_prompt"
            ELSE IF MatchesExactly(m, EDIT_PRESET_TEXT) THEN "edit_preset_select"
            ELSE IF MatchesExactly(m, DELETE_PRESET_TEXT) THEN "delete_preset_select"
            ELSE IF MatchesExactly(m, BACK_TEXT) THEN "settings"
            ELSE ""
      [] state = DELETE_PRESET ->
            IF MatchesPrefix(m, DELETE_PREFIX) THEN "delete_preset"
            ELSE IF MatchesExactly(m, BACK_TEXT) THEN "presets_menu"
            ELSE ""
      [] state = EDIT_PRESET ->
            IF MatchesPrefix(m, EDIT_PREFIX) THEN "edit_preset"
            ELSE IF MatchesExactly(m, BACK_TEXT) THEN "presets_menu"
            ELSE ""
      [] OTHER -> ""

(* fallbacks (lines 1402-1405). *)
Fallback(m) ==
    IF IsCommandNamed(m, CANCEL_COMMAND) \/ MatchesExactly(m, CANCEL_TEXT)
    THEN "cancel"
    ELSE ""

(* The second handler of the application (lines 1411-1414). *)
CatchAll(m) == IF IsText(m) /\ ~IsCommand(m) THEN "command_handler" ELSE ""

(* Application.process_update with ConversationHandler.check_update: the   *)
(* conversation handler takes the update if an entry point (no             *)
(* conversation), a handler of the state, or a fallback matches; otherwise *)
(* the catch-all text handler takes it; otherwise nothing does.            *)
Route(state, m) ==
    IF state = END
    THEN IF EntryPoint(m) # "" THEN EntryPoint(m) ELSE CatchAll(m)
    ELSE IF StateHandler(state, m) # "" THEN StateHandler(state, m)
    ELSE IF Fallback(m) # "" THEN Fallback(m)
    ELSE CatchAll(m)

----------------------------------------------------------------------------
(* What the bot renders on its keyboards, which is what a user who presses *)
(* a button sends back.                                                    *)

Abs(n) == IF n < 0 THEN 0 - n ELSE n

PxLeft == <<112, 120, 32, 76, 101, 102, 116>>     \* "px Left"

PxRight == <<112, 120, 32, 82, 105, 103, 104, 116>>    \* "px Right"

PxUp == <<112, 120, 32, 85, 112>>    \* "px Up"

PxDown == <<112, 120, 32, 68, 111, 119, 110>>    \* "px Down"

Center == <<67, 101, 110, 116, 101, 114>>    \* "Center"

Default == <<68, 101, 102, 97, 117, 108, 116>>    \* "Default"

(* Lines 456-466, 516-526, 1191-1201: the description on a preset button,  *)
(* "Center", "3px Left", "Center, 2px Up", ...  (44, 32 is ", ").          *)
ImagePos(spacing) ==
    LET x == Get(spacing, "image_x", 0)
        y == Get(spacing, "image_y", 0)
        horizontal == IF x < 0 THEN Decimal(Abs(x)) \o PxLeft
                      ELSE IF x > 0 THEN Decimal(x) \o PxRight
                      ELSE Center
        vertical == IF y < 0 THEN <<44, 32>> \o Decimal(Abs(y)) \o PxUp
                    ELSE IF y > 0 THEN <<44, 32>> \o Decimal(y) \o PxDown
                    ELSE <<>>
    IN  horizontal \o vertical

(* f"Preset: {preset_name} ({image_pos})", and the same for Edit, Delete   *)
(* (32 is " ", 40 is "(", 41 is ")").                                      *)
PresetButton(prefix, preset_name, spacing) ==
    prefix \o <<32>> \o preset_name \o <<32, 40>> \o ImagePos(spacing) \o <<41>>

(* Lines 275-303: f"{IMAGE_X_TEXT} ({image_x_label})" and its siblings.    *)
DirectionButton(label, value, negative, positive, zero) ==
    label \o <<32, 40>>
          \o (IF value < 0 THEN Decimal(Abs(value)) \o negative
              ELSE IF value > 0 THEN Decimal(value) \o positive
              ELSE zero)
          \o <<41>>

----------------------------------------------------------------------------
(* The updates the model delivers.                                         *)

MaxOffset == 1      \* users type the offsets 1..MaxOffset

Users == {"u1"}

(* The preset names users type. *)
NameTexts == {NameA}

(* The offsets users type: "1", "2", ... *)
OffsetTexts == {Decimal(i) : i \in 1..MaxOffset}

LabelTexts ==
    {CREATE_IMAGE_TEXT, SETTINGS_TEXT, CANCEL_TEXT, BACK_TEXT, CUSTOM_SPACING_TEXT,
     PRESETS_TEXT, SAVE_PRESET_TEXT, DONE_TEXT, DELETE_PRESET_TEXT, EDIT_PRESET_TEXT}

(* The commands users send: the three the bot knows, one it does not,     *)
(* one in capitals and one addressed to the bot by name.                   *)
CommandTexts ==
    {<<47>> \o c : c \in {START_COMMAND, SETTINGS_COMMAND, CANCEL_COMMAND,
                          <<104, 101, 108, 112>>,    \* "help"
                          <<67, 65, 78, 67, 69, 76>>}}    \* "CANCEL"
    \cup {<<47>> \o SETTINGS_COMMAND \o <<64>> \o BOT_USERNAME}

(* Lines 298-301: the four buttons the position menu shows for the        *)
(* session's spacing.                                                      *)
DirectionTexts(spacing) ==
    {DirectionButton(IMAGE_X_TEXT, spacing["image_x"], PxLeft, PxRight, Center),
     DirectionButton(IMAGE_Y_TEXT, spacing["image_y"], PxUp, PxDown, Center),
     DirectionButton(TEXT_X_TEXT, spacing["text_x"], PxLeft, PxRight, Center),
     DirectionButton(TEXT_Y_TEXT, spacing["text_y"], PxUp, PxDown, Default)}

(* The one of them the users of the whole bot press: they move the image   *)
(* to the left and to the right only (SpacingMessages has all four).       *)
PressedDirectionTexts(spacing) ==
    {t \in DirectionTexts(spacing) : StartsWith(t, IMAGE_X_TEXT)}

(* The buttons the preset menus show for the stored presets, and the same  *)
(* selections typed by hand without the description.                       *)
PresetTexts(pf) ==
    UNION {
        IF Has(pf.data[n], "spacing")
        THEN {PresetButton(prefix, n, Migrate(pf.data)[n]["spacing"])
                : prefix \in {PRESET_PREFIX, EDIT_PREFIX, DELETE_PREFIX}}
        ELSE {}
        : n \in DOMAIN pf.data}
    \cup {prefix \o n : prefix \in {PRESET_PREFIX, EDIT_PREFIX, DELETE_PREFIX},
                        n \in NameTexts}

(* What users send as text.  Where a preset name is awaited every text is  *)
(* a name: there users type a name or blanks, press Back, or send a        *)
(* command.                                                                *)
Texts(u) ==
    IF conversations[u] = PRESET_NAME
    THEN NameTexts \cup CommandTexts \cup {BACK_TEXT, Blank}
    ELSE
    LabelTexts \cup CommandTexts \cup NameTexts \cup OffsetTexts
    \cup {Blank}
    \cup PresetTexts(presets_file)
    \cup PressedDirectionTexts(
             IF Has(user_data, u) /\ Has(user_data[u], "spacing")
             THEN FillMissing(user_data[u]["spacing"])
             ELSE DEFAULT_SPACING)

(* What users send: texts, a document that is no image, a sticker, and    *)
(* images: the main image as a PNG document and the reference as a photo   *)
(* (JobMessages has every kind of image at every step).                    *)
Messages(u) ==
    {TextMessage(t) : t \in Texts(u)}
    \cup {DocumentMessage(APPLICATION_PDF), OtherMessage}
    \cup (IF conversations[u] = SECOND_IMAGE THEN {PhotoMessage}
          ELSE {DocumentMessage(IMAGE_PNG)})

AllOk ==
    [read |-> TRUE, migrate |-> TRUE, write |-> TRUE, opened |-> TRUE,
     download |-> TRUE,
     decode_main |-> TRUE, decode_ref |-> TRUE, send_user |-> TRUE,
     send_group |-> TRUE, font |-> TRUE, reply |-> TRUE, reply_note |-> TRUE,
     reply_done |-> TRUE, reply_error |-> TRUE, reply_retry |-> TRUE]

HasLegacy(pf) == \E n \in DOMAIN pf.data : IsLegacy(pf.data[n])

(* Reading the preset file may fail, and so may the rewrite of a file that *)
(* holds a legacy record.                                                  *)
ReadIo ==
    {io \in {[AllOk EXCEPT !.read = r, !.migrate = g, !.opened = o]
                : r \in BOOLEAN,
                  g \in IF HasLegacy(presets_file) THEN BOOLEAN ELSE {TRUE},
                  o \in BOOLEAN}
        : io.migrate => io.opened}

(* Any of the file operations of an update may fail, and a write that      *)
(* fails may have opened the file.                                         *)
FileIo ==
    {io \in {[AllOk EXCEPT !.read = r, !.migrate = g, !.write = w, !.opened = o]
                : r \in BOOLEAN,
                  g \in IF HasLegacy(presets_file) THEN BOOLEAN ELSE {TRUE},
                  w \in BOOLEAN, o \in BOOLEAN}
        : (io.migrate /\ io.write) => io.opened}

(* Any of the downloads, decodings and deliveries of a job may fail, and   *)
(* so may the fetch of the font.                                           *)
JobIo ==
    {[AllOk EXCEPT !.download = d, !.decode_main = a, !.decode_ref = b,
                   !.send_user = s, !.send_group = g, !.font = f]
        : d \in BOOLEAN, a \in BOOLEAN, b \in BOOLEAN, s \in BOOLEAN,
          g \in BOOLEAN, f \in BOOLEAN}

(* The preset file a run starts from: a fresh deployment has none. *)
InitialFiles == {[exists |-> FALSE, valid |-> FALSE, data |-> EmptyDict]}

Init ==
    /\ user_data = EmptyDict
    /\ conversations = [u \in Users |-> END]
    /\ presets_file \in InitialFiles
    /\ outbox = <<>>
    /\ running = EmptyDict
    /\ font_file = FALSE

(* What the handler called name can leave behind for the update m of user *)
(* u: one result for each way its file operations, downloads and           *)
(* deliveries can turn out.  No handler (name "") drops the update.        *)
Outcomes(name, u, m) ==
    CASE name = "start" ->
            {start(u, m, AllOk, user_data, presets_file)}
      [] name = "settings" ->
            {settings(u, m, AllOk, user_data, presets_file)}
      [] name = "start_new_image" ->
            {start_new_image(u, m, io, user_data, presets_file) : io \in ReadIo}
      [] name = "first_image" ->
            {first_image(u, m, AllOk, user_data, presets_file)}
      [] name = "second_image" ->
            {second_image(u, m, AllOk, user_data, presets_file)}
      [] name = "process_name" ->
            {process_name(u, m, io, user_data, presets_file) : io \in JobIo}
      [] name = "cancel" ->
            {cancel(u, m, AllOk, user_data, presets_file)}
      [] name = "custom_spacing_menu" ->
            {custom_spacing_menu(u, m, AllOk, user_data, presets_file)}
      [] name = "handle_direction_selection" ->
            {handle_direction_selection(u, m, AllOk, user_data, presets_file)}
      [] name = "handle_spacing_input" ->
            {handle_spacing_input(u, m, AllOk, user_data, presets_file)}
      [] name = "presets_menu" ->
            {presets_menu(u, m, io, user_data, presets_file) : io \in ReadIo}
      [] name = "save_preset_prompt" ->
            {save_preset_prompt(u, m, AllOk, user_data, presets_file)}
      [] name = "save_preset" ->
            {save_preset(u, m, io, user_data, presets_file) : io \in FileIo}
      [] name = "done_settings" ->
            {done_settings(u, m, AllOk, user_data, presets_file)}
      [] name = "load_preset" ->
            {load_preset(u, m, io, user_data, presets_file, EmptyDict) : io \in ReadIo}
      [] name = "edit_preset_select" ->
            {edit_preset_select(u, m, io, user_data, presets_file) : io \in ReadIo}
      [] name = "edit_preset" ->
            {edit_preset(u, m, io, user_data, presets_file) : io \in ReadIo}
      [] name = "delete_preset_select" ->
            {delete_preset_select(u, m, io, user_data, presets_file) : io \in ReadIo}
      [] name = "delete_preset" ->
            {delete_preset(u, m, io, user_data, presets_file) : io \in FileIo}
      [] name = "command_handler" ->
            {command_handler(u, m, io, user_data, presets_file) : io \in ReadIo}
      [] OTHER ->
            {Result(user_data, presets_file, <<>>, conversations[u])}

(* The conversation state of u after the handler called name left r: what  *)
(* the handler returned, unless it raised or is the catch-all handler      *)
(* registered outside the conversation.                                    *)
After(name, u, r) ==
    IF r.raised \/ name = "command_handler" THEN conversations[u] ELSE r.ret

(* The update m of user u is dispatched to the handler called name, whose  *)
(* outcomes are the set the action passes: Outcomes(name, u, m).           *)
Handle(u, m, name, outcomes) ==
    /\ Route(conversations[u], m) = name
    /\ \E r \in outcomes :
        /\ user_data' = r.ud
        /\ presets_file' = r.pf
        /\ outbox' = r.out
        /\ conversations' = [conversations EXCEPT ![u] = After(name, u, r)]
        /\ font_file' = (font_file \/ r.font)
        /\ UNCHANGED running

Start ==
    \E u \in Users : \E m \in Messages(u) :
        Handle(u, m, "start",
               {start(u, m, AllOk, user_data, presets_file)})

Settings ==
    \E u \in Users : \E m \in Messages(u) :
        Handle(u, m, "settings",
               {settings(u, m, AllOk, user_data, presets_file)})

StartNewImage ==
    \E u \in Users : \E m \in Messages(u) :
        Handle(u, m, "start_new_image",
               {start_new_image(u, m, io, user_data, presets_file) : io \in ReadIo})

FirstImage ==
    \E u \in Users : \E m \in Messages(u) :
        Handle(u, m, "first_image",
               {first_image(u, m, AllOk, user_data, presets_file)})

SecondImage ==
    \E u \in Users : \E m \in Messages(u) :
        Handle(u, m, "second_image",
               {second_image(u, m, AllOk, user_data, presets_file)})

ProcessName ==
    \E u \in Users : \E m \in Messages(u) :
        Handle(u, m, "process_name",
               {process_name(u, m, io, user_data, presets_file) : io \in JobIo})

Cancel ==
    \E u \in Users : \E m \in Messages(u) :
        Handle(u, m, "cancel",
               {cancel(u, m, AllOk, user_data, presets_file)})

CustomSpacingMenu ==
    \E u \in Users : \E m \in Messages(u) :
        Handle(u, m, "custom_spacing_menu",
               {custom_spacing_menu(u, m, AllOk, user_data, presets_file)})

HandleDirectionSelection ==
    \E u \in Users : \E m \in Messages(u) :
        Handle(u, m, "handle_direction_selection",
               {handle_direction_selection(u, m, AllOk, user_data, presets_file)})

HandleSpacingInput ==
    \E u \in Users : \E m \in Messages(u) :
        Handle(u, m, "handle_spacing_input",
               {handle_spacing_input(u, m, AllOk, user_data, presets_file)})

PresetsMenu ==
    \E u \in Users : \E m \in Messages(u) :
        Handle(u, m, "presets_menu",
               {presets_menu(u, m, io, user_data, presets_file) : io \in ReadIo})

SavePresetPrompt ==
    \E u \in Users : \E m \in Messages(u) :
        Handle(u, m, "save_preset_prompt",
               {save_preset_prompt(u, m, AllOk, user_data, presets_file)})

SavePreset ==
    \E u \in Users : \E m \in Messages(u) :
        Handle(u, m, "save_preset",
               {save_preset(u, m, io, user_data, presets_file) : io \in FileIo})

DoneSettings ==
    \E u \in Users : \E m \in Messages(u) :
        Handle(u, m, "done_settings",
               {done_settings(u, m, AllOk, user_data, presets_file)})

LoadPreset ==
    \E u \in Users : \E m \in Messages(u) :
        Handle(u, m, "load_preset",
               {load_preset(u, m, io, user_data, presets_file, EmptyDict) : io \in ReadIo})

EditPresetSelect ==
    \E u \in Users : \E m \in Messages(u) :
        Handle(u, m, "edit_preset_select",
               {edit_preset_select(u, m, io, user_data, presets_file) : io \in ReadIo})

EditPreset ==
    \E u \in Users : \E m \in Messages(u) :
        Handle(u, m, "edit_preset",
               {edit_preset(u, m, io, user_data, presets_file) : io \in ReadIo})

DeletePresetSelect ==
    \E u \in Users : \E m \in Messages(u) :
        Handle(u, m, "delete_preset_select",
               {delete_preset_select(u, m, io, user_data, presets_file) : io \in ReadIo})

DeletePreset ==
    \E u \in Users : \E m \in Messages(u) :
        Handle(u, m, "delete_preset",
               {delete_preset(u, m, io, user_data, presets_file) : io \in FileIo})

CommandHandler ==
    \E u \in Users : \E m \in Messages(u) :
        Handle(u, m, "command_handler",
               {command_handler(u, m, io, user_data, presets_file) : io \in ReadIo})

(* No handler matches: the update is dropped. *)
Unhandled ==
    \E u \in Users : \E m \in Messages(u) :
        Handle(u, m, "",
               {Result(user_data, presets_file, <<>>, conversations[u])})

Next ==
    \/ Start
    \/ Settings
    \/ StartNewImage
    \/ FirstImage
    \/ SecondImage
    \/ ProcessName
    \/ Cancel
    \/ CustomSpacingMenu
    \/ HandleDirectionSelection
    \/ HandleSpacingInput
    \/ PresetsMenu
    \/ SavePresetPrompt
    \/ SavePreset
    \/ DoneSettings
    \/ LoadPreset
    \/ EditPresetSelect
    \/ EditPreset
    \/ DeletePresetSelect
    \/ DeletePreset
    \/ CommandHandler
    \/ Unhandled

Spec == Init /\ [][Next]_vars

----------------------------------------------------------------------------
(* The offsets dialogue on its own: a user who only opens the settings and *)
(* types offsets, for each of the four keys, of either sign, padded with   *)
(* blanks, far beyond any image, or not a number at all.                   *)

OffsetValues == (0 - MaxOffset)..MaxOffset

(* An offset no image is wide enough for, and the same number with an     *)
(* underscore between its digits.                                          *)
FarOffsetText == <<57, 57, 57, 57>>            \* "9999"

GroupedOffsetText == <<57, 95, 57, 57, 57>>    \* "9_999"

(* One with a sign, after a tab and before a newline. *)
SignedOffsetText == <<9, 43, 49, 10>>          \* "\t+1\n"

(* One in Arabic-Indic digits between no-break spaces, and one in          *)
(* fullwidth digits after a line tabulation.                               *)
ArabicOffsetText == <<160, 1633, 160>>         \* "\xa0\u0661\xa0"

FullwidthOffsetText == <<11, 45, 65297>>       \* "\x0b-\uff11"

IntegerTexts ==
    {Decimal(v) : v \in OffsetValues}
    \cup {Blank \o Decimal(v) \o Blank : v \in OffsetValues}
    \cup {FarOffsetText, GroupedOffsetText, SignedOffsetText,
          ArabicOffsetText, FullwidthOffsetText}

NonIntegerTexts ==
    {<<120>>,               \* "x"
     <<49, 46, 53>>,        \* "1.5"
     <<45>>,                \* "-"
     <<49, 32, 49>>,        \* "1 1"
     <<49, 95>>,            \* "1_"
     <<95, 49>>,            \* "_1"
     <<49, 95, 95, 48>>,    \* "1__0"
     <<43, 32, 49>>,        \* "+ 1"
     <<178>>,               \* "\xb2", superscript two
     <<8203, 49>>,          \* "\u200b1", a zero width space before 1
     CANCEL_TEXT}

SpacingMessages(u) ==
    {TextMessage(t) :
        t \in {SETTINGS_TEXT, CUSTOM_SPACING_TEXT, BACK_TEXT, DONE_TEXT,
               (<<47>> \o SETTINGS_COMMAND), (<<47>> \o CANCEL_COMMAND), (<<47>> \o START_COMMAND)}
              \cup IntegerTexts \cup NonIntegerTexts
              \cup DirectionTexts(
                       IF Has(user_data, u) /\ Has(user_data[u], "spacing")
                       THEN FillMissing(user_data[u]["spacing"])
                       ELSE DEFAULT_SPACING)}

SpacingStart ==
    \E u \in Users : \E m \in SpacingMessages(u) :
        Handle(u, m, "start",
               {start(u, m, AllOk, user_data, presets_file)})

SpacingSettings ==
    \E u \in Users : \E m \in SpacingMessages(u) :
        Handle(u, m, "settings",
               {settings(u, m, AllOk, user_data, presets_file)})

SpacingMenu ==
    \E u \in Users : \E m \in SpacingMessages(u) :
        Handle(u, m, "custom_spacing_menu",
               {custom_spacing_menu(u, m, AllOk, user_data, presets_file)})

SpacingDirection ==
    \E u \in Users : \E m \in SpacingMessages(u) :
        Handle(u, m, "handle_direction_selection",
               {handle_direction_selection(u, m, AllOk, user_data, presets_file)})

SpacingInput ==
    \E u \in Users : \E m \in SpacingMessages(u) :
        Handle(u, m, "handle_spacing_input",
               {handle_spacing_input(u, m, AllOk, user_data, presets_file)})

SpacingDone ==
    \E u \in Users : \E m \in SpacingMessages(u) :
        Handle(u, m, "done_settings",
               {done_settings(u, m, AllOk, user_data, presets_file)})

SpacingCancel ==
    \E u \in Users : \E m \in SpacingMessages(u) :
        Handle(u, m, "cancel",
               {cancel(u, m, AllOk, user_data, presets_file)})

SpacingCatchAll ==
    \E u \in Users : \E m \in SpacingMessages(u) :
        Handle(u, m, "command_handler",
               {command_handler(u, m, io, user_data, presets_file) : io \in ReadIo})

SpacingUnhandled ==
    \E u \in Users : \E m \in SpacingMessages(u) :
        Handle(u, m, "",
               {Result(user_data, presets_file, <<>>, conversations[u])})

NextSpacing ==
    \/ SpacingStart
    \/ SpacingSettings
    \/ SpacingMenu
    \/ SpacingDirection
    \/ SpacingInput
    \/ SpacingDone
    \/ SpacingCancel
    \/ SpacingCatchAll
    \/ SpacingUnhandled

SpecSpacing == Init /\ [][NextSpacing]_vars

----------------------------------------------------------------------------
(* Vocabulary of the properties.                                           *)

(* The session of u in the store ud (none is the empty session), and its   *)
(* offsets.                                                                *)
Session(ud, u) == IF Has(ud, u) THEN ud[u] ELSE EmptyDict

SpacingOf(ud, u) == Get(Session(ud, u), "spacing", EmptyDict)

(* What a session holds for one job only. *)
JobFields ==
    {"first_photo", "first_is_document", "first_mime_type",
     "second_photo", "second_is_document", "second_mime_type",
     "user_info", "current_spacing_key", "editing_preset"}

HoldsJobFields(ud, u) == DOMAIN Session(ud, u) \cap JobFields # {}

HoldsBothMedia(ud, u) ==
    Has(Session(ud, u), "first_photo") /\ Has(Session(ud, u), "second_photo")

Sent(out, tag) == \E i \in DOMAIN out : out[i] = Text(tag)

DocumentsTo(out, to) ==
    {i \in DOMAIN out : out[i].kind = "document" /\ out[i].to = to}

ErrorTags ==
    {"error: KeyError", "error: download failed",
     "error: cannot identify image file", "error: delivery failed"}

CancelInputs == {TextMessage(CANCEL_TEXT), TextMessage((<<47>> \o CANCEL_COMMAND))}

(* The label of a job: any text but a command or the cancel label. *)
LabelInputs(u) ==
    {m \in Messages(u) : Route(NAME, m) = "process_name" /\ m.text # CANCEL_TEXT}

AwaitingStates == {FIRST_IMAGE, SECOND_IMAGE, NAME, SPACING_INPUT, PRESET_NAME}

MenuStates == {SETTINGS, CUSTOM_SPACING, PRESETS, EDIT_PRESET, DELETE_PRESET}

(* The menu each menu state shows. *)
MenuOf(state) ==
    CASE state = SETTINGS -> "settings menu"
      [] state = CUSTOM_SPACING -> "position menu"
      [] state = PRESETS -> "presets menu"
      [] state = EDIT_PRESET -> "select preset to edit"
      [] state = DELETE_PRESET -> "select preset to delete"
      [] OTHER -> ""

----------------------------------------------------------------------------
(* C1: a step that leaves the label state with the composition delivered   *)
(* ("here is your merged image") leaves u a session whose offsets are the  *)
(* four it held when the label was submitted, and none of the job fields.  *)
C1_CompositionKeepsOffsetsOnly ==
    [][\A u \in Users :
        (conversations[u] = NAME /\ Sent(outbox', "here is your merged image"))
        => /\ DOMAIN SpacingOf(user_data, u) = SPACING_KEYS
           /\ SpacingOf(user_data', u) = SpacingOf(user_data, u)
           /\ ~HoldsJobFields(user_data', u)]_vars

(* A composition from image documents, under offsets the user has set. *)
C1_Composed ==
    \E u \in Users :
        /\ conversations[u] = END
        /\ Sent(outbox, "here is your merged image")
        /\ DocumentsTo(outbox, "user") # {}
        /\ outbox[2].body = "PNG"
        /\ SpacingOf(user_data, u)["image_x"] # 0

(* C2: the last preset a session names is still named, unchanged, after a  *)
(* step that delivers a composition and after a step that cancels.         *)
C2_LastPresetSurvivesJobEnd ==
    [][\A u \in Users :
        (/\ Has(Session(user_data, u), "last_preset")
         /\ \/ Sent(outbox', "here is your merged image")
            \/ Sent(outbox', "operation cancelled"))
        => /\ Has(Session(user_data', u), "last_preset")
           /\ Session(user_data', u)["last_preset"]
                = Session(user_data, u)["last_preset"]]_vars

(* C3: in every awaiting state the cancel command and the cancel label end *)
(* the conversation, drop the job fields, and leave the offsets and the    *)
(* preset file as they were.                                               *)
C3_CancelInEveryAwaitingState ==
    \A u \in Users :
        conversations[u] \in AwaitingStates
        => \A m \in CancelInputs :
            \A r \in Outcomes(Route(conversations[u], m), u, m) :
                /\ After(Route(conversations[u], m), u, r) = END
                /\ ~HoldsJobFields(r.ud, u)
                /\ SpacingOf(r.ud, u) = SpacingOf(user_data, u)
                /\ r.pf = presets_file

C6_FailureResetsJob ==
    [][\A u \in Users :
        (conversations[u] = NAME /\ \E e \in ErrorTags : Sent(outbox', e))
        => /\ conversations'[u] = END
           /\ Sent(outbox', "click below to try again")
           /\ ~HoldsJobFields(user_data', u)]_vars

(* C7: in the label state, a label submitted when either download cannot   *)
(* be decoded delivers no document, to the user or to the group.           *)
C7_NoOutputOnDecodeFailure ==
    \A u \in Users :
        conversations[u] = NAME
        => \A m \in LabelInputs(u) : \A io \in JobIo :
            ~(io.decode_main /\ io.decode_ref)
            => LET r == process_name(u, m, io, user_data, presets_file)
               IN  /\ DocumentsTo(r.out, "user") = {}
                   /\ DocumentsTo(r.out, "group") = {}

(* A job that ended on an image that could not be decoded. *)
C7_DecodeFailed ==
    \E u \in Users :
        /\ conversations[u] = END
        /\ Sent(outbox, "error: cannot identify image file")
        /\ DocumentsTo(outbox, "user") = {}
        /\ DocumentsTo(outbox, "group") = {}

(* C8: in the label state, a label submitted when everything but the group *)
(* delivery succeeds delivers the document to the user, then tells the     *)
(* user the group was skipped, sends the group nothing, resets the session *)
(* to its offsets and ends the conversation; and whatever succeeds, the    *)
(* group delivery or its note comes only after a document delivered to the *)
(* user.                                                                   *)
C8_GroupFailureAfterUserDelivery ==
    \A u \in Users :
        conversations[u] = NAME
        => \A m \in LabelInputs(u) : \A io \in JobIo :
            LET r == process_name(u, m, io, user_data, presets_file)
                notes == {i \in DOMAIN r.out :
                             r.out[i] = Text("could not share to the group")}
            IN  /\ (/\ io.download /\ io.decode_main /\ io.decode_ref
                    /\ io.send_user /\ ~io.send_group)
                   => /\ DocumentsTo(r.out, "user") # {}
                      /\ notes # {}
                      /\ DocumentsTo(r.out, "group") = {}
                      /\ ~r.raised /\ r.ret = END
                      /\ Session(r.ud, u)
                            = Put(EmptyDict, "spacing", SpacingOf(user_data, u))
                /\ \A i \in notes \cup DocumentsTo(r.out, "group") :
                       \E j \in DocumentsTo(r.out, "user") : j < i

(* A job delivered to the user and not to the group. *)
C8_GroupSkipped ==
    \E u \in Users :
        /\ conversations[u] = END
        /\ Sent(outbox, "could not share to the group")
        /\ DocumentsTo(outbox, "user") # {}
        /\ DocumentsTo(outbox, "group") = {}
        /\ DOMAIN Session(user_data, u) = {"spacing"}

(* C9: in the two image states an update that is no photo, no image        *)
(* document and no cancel keeps the state and the session store, and the   *)
(* user is asked for an image again.                                       *)
C9_WrongMediaReprompts ==
    \A u \in Users :
        conversations[u] \in {FIRST_IMAGE, SECOND_IMAGE}
        => \A m \in Messages(u) \ CancelInputs :
            ~(m.kind = "photo" \/ IsImageDocument(m))
            => \A r \in Outcomes(Route(conversations[u], m), u, m) :
                /\ After(Route(conversations[u], m), u, r) = conversations[u]
                /\ r.ud = user_data
                /\ Sent(r.out, "please send an image")

(* C10: in a menu state an update that neither the handlers of the state   *)
(* nor the fallbacks take keeps the state, the session store and the       *)
(* preset file, and the menu of the state is shown again.                  *)
C10_UnlistedInputRerendersMenu ==
    \A u \in Users :
        conversations[u] \in MenuStates
        => \A m \in Messages(u) :
            (StateHandler(conversations[u], m) = "" /\ Fallback(m) = "")
            => \A r \in Outcomes(Route(conversations[u], m), u, m) :
                /\ After(Route(conversations[u], m), u, r) = conversations[u]
                /\ r.ud = user_data
                /\ r.pf = presets_file
                /\ Sent(r.out, MenuOf(conversations[u]))

(* The integers of the offsets dialogue, each spelling with its value. *)
IntegerInputs ==
    {[text |-> Decimal(v), value |-> v] : v \in OffsetValues}
    \cup {[text |-> Blank \o Decimal(v) \o Blank, value |-> v] : v \in OffsetValues}
    \cup {[text |-> FarOffsetText, value |-> 9999],
          [text |-> GroupedOffsetText, value |-> 9999],
          [text |-> SignedOffsetText, value |-> 1],
          [text |-> ArabicOffsetText, value |-> 1],
          [text |-> FullwidthOffsetText, value |-> -1]}

(* The button of the position menu for each key. *)
KeyButton(key, spacing) ==
    CASE key = "image_x" ->
            DirectionButton(IMAGE_X_TEXT, spacing[key], PxLeft, PxRight, Center)
      [] key = "image_y" ->
            DirectionButton(IMAGE_Y_TEXT, spacing[key], PxUp, PxDown, Center)
      [] key = "text_x" ->
            DirectionButton(TEXT_X_TEXT, spacing[key], PxLeft, PxRight, Center)
      [] key = "text_y" ->
            DirectionButton(TEXT_Y_TEXT, spacing[key], PxUp, PxDown, Default)

(* C11: in the position menu the button of a key makes that key the        *)
(* pending one and asks for its value; where the value is awaited, every   *)
(* spelling of an integer - negative, zero, positive, padded, or far       *)
(* beyond any image - is written to the pending key, the other three       *)
(* offsets, the rest of the session and the preset file stay as they were, *)
(* and the conversation returns to the position menu.                      *)
C11_IntegerWrittenToChosenKey ==
    \A u \in Users :
        /\ conversations[u] = CUSTOM_SPACING
            => \A key \in SPACING_KEYS :
                LET m == TextMessage(KeyButton(key, user_data[u]["spacing"]))
                    name == Route(conversations[u], m)
                IN  \A r \in Outcomes(name, u, m) :
                        /\ After(name, u, r) = SPACING_INPUT
                        /\ r.ud = SetField(user_data, u, "current_spacing_key", key)
        /\ conversations[u] = SPACING_INPUT
            => /\ Has(Session(user_data, u), "current_spacing_key")
               /\ \A i \in IntegerInputs :
                    LET m == TextMessage(i.text)
                        name == Route(conversations[u], m)
                        key == user_data[u]["current_spacing_key"]
                    IN  \A r \in Outcomes(name, u, m) :
                            /\ name = "handle_spacing_input"
                            /\ After(name, u, r) = CUSTOM_SPACING
                            /\ r.ud = SetField(user_data, u, "spacing",
                                        [user_data[u]["spacing"] EXCEPT ![key] = i.value])
                            /\ r.pf = presets_file

(* Back in the position menu with a negative text_y and a far image_x. *)
C11_OffsetsWritten ==
    \E u \in Users :
        /\ conversations[u] = CUSTOM_SPACING
        /\ Sent(outbox, "position menu")
        /\ Has(Session(user_data, u), "current_spacing_key")
        /\ user_data[u]["spacing"]["text_y"] < 0
        /\ user_data[u]["spacing"]["image_y"] > 0
        /\ user_data[u]["spacing"]["image_x"] = 9999

(* C12: where the value is awaited, text that is no integer (and neither   *)
(* Back nor a command) leaves the session store and the preset file as     *)
(* they were, asks for a valid number, and keeps awaiting the value.       *)
C12_NonIntegerReprompts ==
    \A u \in Users :
        conversations[u] = SPACING_INPUT
        => \A t \in NonIntegerTexts :
            LET m == TextMessage(t)
                name == Route(conversations[u], m)
            IN  \A r \in Outcomes(name, u, m) :
                    /\ name = "handle_spacing_input"
                    /\ After(name, u, r) = SPACING_INPUT
                    /\ r.ud = user_data
                    /\ r.pf = presets_file
                    /\ Sent(r.out, "enter a valid number")

(* Asked again for a number, with offsets set before still in place. *)
C12_Reprompted ==
    \E u \in Users :
        /\ conversations[u] = SPACING_INPUT
        /\ Sent(outbox, "enter a valid number")
        /\ user_data[u]["current_spacing_key"] = "text_x"
        /\ user_data[u]["spacing"]["image_x"] < 0

----------------------------------------------------------------------------
(* Preset names a user may select: "A" is the one ever stored, "B" never   *)
(* is.                                                                     *)
PresetNames == {NameA, NameB}

StoredNames == PresetNames \cap DOMAIN presets_file.data

MissingNames == PresetNames \ DOMAIN presets_file.data

(* The two ways of selecting a preset: the button the menu rendered for it *)
(* (lines 456-470, 517-530, 1192-1205) and the bare "<Prefix>:<name>".     *)
Selections(prefix, n) ==
    {PresetButton(prefix, n,
                  IF Has(presets_file.data, n)
                  THEN presets_file.data[n]["spacing"] ELSE DEFAULT_SPACING),
     prefix \o n}

(* C13: in the presets menu, selecting a stored preset (the file being     *)
(* readable) makes its stored offsets the session's spacing, remembers its *)
(* name as the last preset, leaves the file alone and returns to the       *)
(* settings menu.                                                          *)
C13_LoadAppliesStoredPreset ==
    \A u \in Users :
        conversations[u] = PRESETS
        => \A n \in StoredNames : \A t \in Selections(PRESET_PREFIX, n) :
            LET m == TextMessage(t)
                name == Route(conversations[u], m)
                r == load_preset(u, m, AllOk, user_data, presets_file, EmptyDict)
            IN  /\ name = "load_preset"
                /\ r \in Outcomes(name, u, m)
                /\ After(name, u, r) = SETTINGS
                /\ DOMAIN r.ud[u]["spacing"] = SPACING_KEYS
                /\ r.ud = SetField(
                              SetField(user_data, u, "spacing",
                                       presets_file.data[n]["spacing"]),
                              u, "last_preset", n)
                /\ r.pf = presets_file

(* A stored preset with a non-zero offset has just been loaded. *)
C13_PresetLoaded ==
    \E u \in Users :
        /\ conversations[u] = SETTINGS
        /\ Sent(outbox, "preset loaded")
        /\ Has(presets_file.data, NameA)
        /\ user_data[u]["last_preset"] = NameA
        /\ user_data[u]["spacing"] = presets_file.data[NameA]["spacing"]
        /\ user_data[u]["spacing"]["image_x"] # 0

(* Names users type where a name is awaited, and the name each is stored   *)
(* under (line 653: text.strip()).                                         *)
NameInputs ==
    {[text |-> NameA, name |-> NameA],
     [text |-> NameB, name |-> NameB],
     [text |-> <<32, 65, 32>>, name |-> NameA],           \* " A "
     [text |-> <<160, 65, 8232>>, name |-> NameA],        \* "\xa0A\u2028"
     [text |-> <<65, 32, 66>>, name |-> <<65, 32, 66>>],  \* "A B"
     [text |-> <<233, 8, 128444>>,                        \* "\xe9\x08\U0001f5bc"
      name |-> <<233, 8, 128444>>],
     [text |-> DONE_TEXT, name |-> DONE_TEXT]}

(* C14: where a name is awaited, a non-empty name N (file readable and     *)
(* writable) stores the session's four offsets under N, creating or        *)
(* replacing N, clears the preset being edited, keeps the session's        *)
(* offsets and returns to the settings menu.                               *)
C14_NameStoresSessionSpacing ==
    \A u \in Users :
        conversations[u] = PRESET_NAME
        => \A i \in NameInputs :
            LET m == TextMessage(i.text)
                name == Route(conversations[u], m)
                r == save_preset(u, m, AllOk, user_data, presets_file)
            IN  /\ name = "save_preset"
                /\ r \in Outcomes(name, u, m)
                /\ After(name, u, r) = SETTINGS
                /\ DOMAIN user_data[u]["spacing"] = SPACING_KEYS
                /\ r.pf.exists
                /\ r.pf.data = Put(presets_file.data, i.name,
                                   Put(EmptyDict, "spacing", user_data[u]["spacing"]))
                /\ ~Has(r.ud[u], "editing_preset")
                /\ r.ud[u]["spacing"] = user_data[u]["spacing"]

(* An edited preset has been saved under its name with a new offset. *)
C14_PresetSaved ==
    \E u \in Users :
        /\ conversations[u] = SETTINGS
        /\ Sent(outbox, "preset saved")
        /\ ~Has(user_data[u], "editing_preset")
        /\ Has(presets_file.data, NameA)
        /\ presets_file.data[NameA]["spacing"] = user_data[u]["spacing"]
        /\ user_data[u]["spacing"]["image_x"] # 0

(* C15 as stated: selecting a stored preset for deletion removes it from   *)
(* the file and moves to the presets menu.                                 *)
C15_DeleteMovesToPresetsMenu ==
    \A u \in Users :
        conversations[u] = DELETE_PRESET
        => \A n \in StoredNames : \A t \in Selections(DELETE_PREFIX, n) :
            LET m == TextMessage(t)
                name == Route(conversations[u], m)
                r == delete_preset(u, m, AllOk, user_data, presets_file)
            IN  /\ r.pf.data = Del(presets_file.data, n)
                /\ After(name, u, r) = PRESETS

(* C15: selecting a stored preset for deletion (file readable and          *)
(* writable) removes it from the file, leaves the session alone, and the   *)
(* conversation stays in the delete menu, from where Back leads to the     *)
(* presets menu.                                                           *)
C15_DeleteStaysInDeleteMenu ==
    \A u \in Users :
        conversations[u] = DELETE_PRESET
        => /\ \A n \in StoredNames : \A t \in Selections(DELETE_PREFIX, n) :
                LET m == TextMessage(t)
                    name == Route(conversations[u], m)
                    r == delete_preset(u, m, AllOk, user_data, presets_file)
                IN  /\ name = "delete_preset"
                    /\ r \in Outcomes(name, u, m)
                    /\ r.pf.exists
                    /\ r.pf.data = Del(presets_file.data, n)
                    /\ r.ud = user_data
                    /\ Sent(r.out, "preset deleted")
                    /\ After(name, u, r) = DELETE_PRESET
           /\ LET m == TextMessage(BACK_TEXT)
                  name == Route(conversations[u], m)
              IN  \A r \in Outcomes(name, u, m) :
                      /\ After(name, u, r) = PRESETS
                      /\ r.pf = presets_file

(* The only preset has been deleted and the delete menu is still open. *)
C15_PresetDeleted ==
    \E u \in Users :
        /\ conversations[u] = DELETE_PRESET
        /\ Sent(outbox, "preset deleted")
        /\ presets_file.exists
        /\ ~Has(presets_file.data, NameA)

SelectionMenus ==
    {[prefix |-> PRESET_PREFIX, state |-> PRESETS, handler |-> "load_preset"],
     [prefix |-> EDIT_PREFIX, state |-> EDIT_PRESET, handler |-> "edit_preset"],
     [prefix |-> DELETE_PREFIX, state |-> DELETE_PRESET, handler |-> "delete_preset"]}

(* What the selection of a name does in its menu, whatever the file        *)
(* operations do.                                                          *)
SelectionOutcomes(s, u, n) ==
    UNION {Outcomes(Route(conversations[u], TextMessage(t)), u, TextMessage(t))
            : t \in Selections(s.prefix, n)}

SettingsInputs == {SETTINGS_TEXT, (<<47>> \o SETTINGS_COMMAND)}

(* C18: outside a conversation, the settings input opens the settings      *)
(* menu; a session that has spacing keeps it, one that has none gets the   *)
(* four zero offsets; no other session field and no preset changes.        *)
C18_SettingsLoadsOrDefaults ==
    \A u \in Users :
        conversations[u] = END
        => \A t \in SettingsInputs :
            LET m == TextMessage(t)
                name == Route(conversations[u], m)
            IN  /\ name = "settings"
                /\ \A r \in Outcomes(name, u, m) :
                    /\ After(name, u, r) = SETTINGS
                    /\ Sent(r.out, "settings menu")
                    /\ r.pf = presets_file
                    /\ r.ud[u]["spacing"]
                         = IF Has(Session(user_data, u), "spacing")
                           THEN user_data[u]["spacing"]
                           ELSE [k \in SPACING_KEYS |-> 0]
                    /\ \A f \in DOMAIN r.ud[u] \ {"spacing"} :
                        /\ Has(Session(user_data, u), f)
                        /\ r.ud[u][f] = user_data[u][f]
                    /\ DOMAIN Session(user_data, u) \subseteq DOMAIN r.ud[u]

(* The settings menu opened on a session that kept its offset, its last    *)
(* preset and the media of an unfinished job.                              *)
C18_SettingsOpened ==
    \E u \in Users :
        /\ conversations[u] = SETTINGS
        /\ Sent(outbox, "settings menu")
        /\ user_data[u]["spacing"]["image_x"] # 0
        /\ Has(user_data[u], "last_preset")

----------------------------------------------------------------------------
(* The placement of the reference image, lines 957-976 of process_name.    *)

REF_IMAGE_SIZE == 400

(* A division that rounds up: C19 tells it from Python's "//".              *)
CeilDiv(a, b) == 0 - ((0 - a) \div b)

(* Python's a // b: the floor of the quotient. *)
FloorDiv(a, b) == a \div b

max(a, b) == IF a >= b THEN a ELSE b

(* A lower-of-two that ignores its bound: C22 tells it from line 975.      *)
min_unbounded(a, b) == a

min(a, b) == IF a <= b THEN a ELSE b

(* A placement without lines 975-976: C20 tells it from the clamped one.   *)
ReferenceAnchorUnclamped(main_width, main_height, spacing) ==
    <<FloorDiv(main_width, 2) - FloorDiv(REF_IMAGE_SIZE, 2) + spacing["image_x"],
      FloorDiv(main_height, 2) - FloorDiv(REF_IMAGE_SIZE, 2) + spacing["image_y"]>>

(* Lines 967-976: (x_position, y_position), where the resized reference is *)
(* pasted into a main image of main_width x main_height.                   *)
ReferenceAnchor(main_width, main_height, spacing) ==
    LET ref_center_x == FloorDiv(main_width, 2)
        ref_center_y == FloorDiv(main_height, 2)
        x_position == ref_center_x - FloorDiv(REF_IMAGE_SIZE, 2) + spacing["image_x"]
        y_position == ref_center_y - FloorDiv(REF_IMAGE_SIZE, 2) + spacing["image_y"]
    IN  <<max(0, min(x_position, main_width - REF_IMAGE_SIZE)),
          max(0, min(y_position, main_height - REF_IMAGE_SIZE))>>

(* Sides of main images: smaller than the reference, as large, one pixel   *)
(* larger, and larger with an even and an odd side.                        *)
MainSides == {1, 300, 399, 400, 401, 700, 1001}

(* Offsets of the reference: none, one pixel, within and beyond the image. *)
AnchorOffsets == {-1000, -150, -1, 0, 1, 150, 1000}

(* The paste of the reference into the main image, as the composition      *)
(* performs it.                                                            *)
Paste(main_width, main_height, position) ==
    [to |-> "canvas", kind |-> "paste",
     body |-> [main |-> <<main_width, main_height>>, position |-> position]]

(* The session of a user who set the two image offsets and sent two photos *)
(* (lines 802-808 and 878-884).                                            *)
AnchorSession(u, x, y) ==
    [spacing |-> [DEFAULT_SPACING EXCEPT !["image_x"] = x, !["image_y"] = y],
     user_info |-> [id |-> u],
     first_photo |-> Media(PhotoMessage),
     first_is_document |-> FALSE,
     second_photo |-> Media(PhotoMessage),
     second_is_document |-> FALSE]

(* Such a user, asked for the label. *)
InitAnchor ==
    /\ \E x \in AnchorOffsets, y \in AnchorOffsets :
        user_data = [u \in Users |-> AnchorSession(u, x, y)]
    /\ conversations = [u \in Users |-> NAME]
    /\ presets_file \in InitialFiles
    /\ outbox = <<>>
    /\ running = EmptyDict
    /\ font_file = FALSE

(* Lines 957-976 on a main image of any of the sizes. *)
PlaceReference ==
    \E u \in Users : \E main_width \in MainSides, main_height \in MainSides :
        /\ conversations[u] = NAME
        /\ outbox' = <<Paste(main_width, main_height,
                             ReferenceAnchor(main_width, main_height,
                                             user_data[u]["spacing"]))>>
        /\ UNCHANGED <<user_data, conversations, presets_file, running, font_file>>

NextAnchor == PlaceReference

SpecAnchor == InitAnchor /\ [][NextAnchor]_vars

(* The pastes of the last composition. *)
Pastes == {outbox[i].body : i \in {j \in DOMAIN outbox : outbox[j].kind = "paste"}}

Clamp(v, lo, hi) == max(lo, min(v, hi))

(* C19: whatever the main image's size and the offsets, the reference is   *)
(* pasted at clamp((main_w - 400) / 2 + image_x, 0, main_w - 400) on X and *)
(* likewise on Y, the division being the integer one; with zero offsets in *)
(* a main image no smaller than the reference that is the centred          *)
(* position.                                                               *)
C19_AnchorIsClampedCentre ==
    \A u \in Users : \A p \in Pastes :
        LET main_w == p.main[1]
            main_h == p.main[2]
            image_x == user_data[u]["spacing"]["image_x"]
            image_y == user_data[u]["spacing"]["image_y"]
        IN  /\ p.position[1] = Clamp((main_w - REF_IMAGE_SIZE) \div 2 + image_x,
                                     0, main_w - REF_IMAGE_SIZE)
            /\ p.position[2] = Clamp((main_h - REF_IMAGE_SIZE) \div 2 + image_y,
                                     0, main_h - REF_IMAGE_SIZE)
            /\ (image_x = 0 /\ main_w >= REF_IMAGE_SIZE)
                => p.position[1] = (main_w - REF_IMAGE_SIZE) \div 2
            /\ (image_y = 0 /\ main_h >= REF_IMAGE_SIZE)
                => p.position[2] = (main_h - REF_IMAGE_SIZE) \div 2

(* An odd width with a one-pixel offset to the left, unclamped, and a      *)
(* height whose offset is cut at the lower edge.                           *)
C19_AnchorPlaced ==
    \E u \in Users : \E p \in Pastes :
        /\ p.main = <<1001, 700>>
        /\ user_data[u]["spacing"]["image_x"] = -1
        /\ user_data[u]["spacing"]["image_y"] = 1000
        /\ p.position = <<299, 300>>

(* C20 as stated: for every main image size and every offset the           *)
(* reference is pasted within [0, main dimension - 400] on each axis.      *)
C20_AnchorWithinImage ==
    \A p \in Pastes :
        /\ p.position[1] \in 0..(p.main[1] - REF_IMAGE_SIZE)
        /\ p.position[2] \in 0..(p.main[2] - REF_IMAGE_SIZE)

(* C20: on an axis where the main image is no smaller than the reference   *)
(* the reference is pasted within [0, main dimension - 400]; on an axis    *)
(* where it is smaller the interval is empty and the reference is pasted   *)
(* at 0.                                                                   *)
C20_AnchorWithinImageOrZero ==
    \A p \in Pastes : \A axis \in {1, 2} :
        IF p.main[axis] >= REF_IMAGE_SIZE
        THEN p.position[axis] \in 0..(p.main[axis] - REF_IMAGE_SIZE)
        ELSE p.position[axis] = 0

(* A main image narrower than the reference, with far offsets on both      *)
(* axes: pasted at the left edge and at the lowest position that fits.     *)
C20_AnchorClamped ==
    \E u \in Users : \E p \in Pastes :
        /\ p.main = <<300, 1001>>
        /\ user_data[u]["spacing"]["image_x"] = 1000
        /\ user_data[u]["spacing"]["image_y"] = 1000
        /\ p.position = <<0, 601>>

(* C22: on an axis where the main image is smaller than the 400 px         *)
(* reference, the reference is pasted at 0 whatever the offset, and the    *)
(* paste position is one the composition can use: both coordinates are     *)
(* natural numbers for every size and offset.                              *)
C22_OversizedReferenceAtZero ==
    /\ \A p \in Pastes : \A axis \in {1, 2} :
        p.main[axis] < REF_IMAGE_SIZE => p.position[axis] = 0
    /\ \A u \in Users : \A main_width \in MainSides, main_height \in MainSides :
        ReferenceAnchor(main_width, main_height, user_data[u]["spacing"])
            \in Nat \X Nat

(* A main image smaller than the reference on both axes, with far offsets  *)
(* in opposite directions: pasted at the origin.                           *)
C22_OversizedPasted ==
    \E u \in Users : \E p \in Pastes :
        /\ p.main = <<300, 399>>
        /\ user_data[u]["spacing"]["image_x"] = 1000
        /\ user_data[u]["spacing"]["image_y"] = -1000
        /\ p.position = <<0, 0>>

----------------------------------------------------------------------------
(* The placement of the label, lines 1036-1046 of process_name.            *)

(* A label placement without lines 1045-1046: C21 tells it from the        *)
(* clamped one.                                                            *)
TextAnchorUnclamped(main_width, main_height, text_width, text_height, spacing) ==
    <<FloorDiv(main_width - text_width, 2) + spacing["text_x"],
      main_height - text_height - 30 + spacing["text_y"]>>

(* A label placement that applies the upper bound last: C23 tells it from  *)
(* the order of max and min in lines 1045-1046.                            *)
TextAnchorUpperLast(main_width, main_height, text_width, text_height, spacing) ==
    LET a == TextAnchorUnclamped(main_width, main_height, text_width,
                                 text_height, spacing)
    IN  <<min(max(10, a[1]), main_width - text_width - 10),
          min(max(10, a[2]), main_height - text_height - 10)>>

(* Lines 1041-1046: (text_x, text_y), where the label of extent            *)
(* text_width x text_height is drawn.                                      *)
TextAnchor(main_width, main_height, text_width, text_height, spacing) ==
    LET text_x == FloorDiv(main_width - text_width, 2) + spacing["text_x"]
        text_y == main_height - text_height - 30 + spacing["text_y"]
    IN  <<max(10, min(text_x, main_width - text_width - 10)),
          max(10, min(text_y, main_height - text_height - 10))>>

(* Sides of main images for the label: small, odd and large. *)
LabelMainSides == {60, 301, 1000}

(* Extents font.getbbox gives a label (lines 1037-1038): short, as wide as *)
(* main_width - 20 allows for the sides above, one pixel wider, very wide. *)
TextWidths == {40, 281, 282, 1200}

TextHeights == {35, 41, 60}

(* Offsets of the label: none, one pixel, beyond the image. *)
TextOffsets == {-1000, -1, 0, 1, 1000}

Draw(main_width, main_height, text_width, text_height, position) ==
    [to |-> "canvas", kind |-> "draw",
     body |-> [main |-> <<main_width, main_height>>,
               extent |-> <<text_width, text_height>>,
               position |-> position]]

(* A user who set the two label offsets and sent two photos, asked for the *)
(* label.                                                                  *)
InitText ==
    /\ \E x \in TextOffsets, y \in TextOffsets :
        user_data = [u \in Users |->
                        [AnchorSession(u, 0, 0) EXCEPT
                            !.spacing = [DEFAULT_SPACING EXCEPT !["text_x"] = x,
                                                                !["text_y"] = y]]]
    /\ conversations = [u \in Users |-> NAME]
    /\ presets_file \in InitialFiles
    /\ outbox = <<>>
    /\ running = EmptyDict
    /\ font_file = FALSE

(* Lines 1036-1053 for a label of any of the extents on a main image of    *)
(* any of the sizes.                                                       *)
DrawText ==
    \E u \in Users :
    \E main_width \in LabelMainSides, main_height \in LabelMainSides :
    \E text_width \in TextWidths, text_height \in TextHeights :
        /\ conversations[u] = NAME
        /\ outbox' = <<Draw(main_width, main_height, text_width, text_height,
                            TextAnchor(main_width, main_height, text_width,
                                       text_height, user_data[u]["spacing"]))>>
        /\ UNCHANGED <<user_data, conversations, presets_file, running, font_file>>

NextText == DrawText

SpecText == InitText /\ [][NextText]_vars

(* The label drawings of the last composition. *)
Draws == {outbox[i].body : i \in {j \in DOMAIN outbox : outbox[j].kind = "draw"}}

(* The unclamped label anchor as the claim gives it, per axis. *)
UnclampedLabel(d, spacing) ==
    <<(d.main[1] - d.extent[1]) \div 2 + spacing["text_x"],
      d.main[2] - d.extent[2] - 30 + spacing["text_y"]>>

(* C21 as stated: for every main image size, label extent and offset the   *)
(* label is drawn within [10, main dimension - text extent - 10] on each   *)
(* axis.                                                                   *)
C21_LabelWithinMargins ==
    \A d \in Draws : \A axis \in {1, 2} :
        d.position[axis] \in 10..(d.main[axis] - d.extent[axis] - 10)

(* C21: on an axis where the label leaves room for both margins            *)
(* (main dimension - text extent >= 20) the label is drawn within          *)
(* [10, main dimension - text extent - 10], at the unclamped anchor        *)
(* ((main_width - text_width) / 2 + text_x,                                *)
(* main_height - text_height - 30 + text_y) when that lies in the          *)
(* interval; on an axis without that room it is drawn at 10.               *)
C21_LabelWithinMarginsOrTen ==
    \A u \in Users : \A d \in Draws : \A axis \in {1, 2} :
        LET upper == d.main[axis] - d.extent[axis] - 10
            free == UnclampedLabel(d, user_data[u]["spacing"])[axis]
        IN  IF upper >= 10
            THEN /\ d.position[axis] \in 10..upper
                 /\ free \in 10..upper => d.position[axis] = free
                 /\ free < 10 => d.position[axis] = 10
                 /\ free > upper => d.position[axis] = upper
            ELSE d.position[axis] = 10

(* A label that fits an odd-sized image, moved one pixel left and far      *)
(* down: drawn at the unclamped X and at the lowest Y that keeps the       *)
(* margin.                                                                 *)
C21_LabelDrawn ==
    \E u \in Users : \E d \in Draws :
        /\ d.main = <<301, 1000>>
        /\ d.extent = <<40, 35>>
        /\ user_data[u]["spacing"]["text_x"] = -1
        /\ user_data[u]["spacing"]["text_y"] = 1000
        /\ d.position = <<129, 955>>

(* C23: a label wider than main_width - 20 is drawn at X = 10 whatever the *)
(* text_x offset.                                                          *)
C23_WideLabelAtTen ==
    \A d \in Draws :
        d.extent[1] > d.main[1] - 20 => d.position[1] = 10

(* A label one pixel too wide for the margins, with a far offset to the    *)
(* left, and one wider than the image, with none.                          *)
C23_WideLabelDrawn ==
    \E u \in Users : \E d \in Draws :
        /\ d.extent[1] = 282
        /\ d.main[1] = 301
        /\ user_data[u]["spacing"]["text_x"] = -1000
        /\ d.position[1] = 10

----------------------------------------------------------------------------
(* The composition job on its own: a user who only creates images, sending *)
(* photos and documents of several types.                                  *)

JobMessages ==
    {TextMessage(CREATE_IMAGE_TEXT), TextMessage(NameA),
     TextMessage(CANCEL_TEXT), TextMessage((<<47>> \o CANCEL_COMMAND)),
     PhotoMessage, DocumentMessage(IMAGE_PNG), DocumentMessage(IMAGE_JPEG),
     DocumentMessage(IMAGE_GIF), DocumentMessage(APPLICATION_PDF)}

(* The messages of a set that the dispatch hands to the named handler in   *)
(* the state the user's conversation is in.                                *)
Routed(messages, u, name) ==
    {m \in messages : Route(conversations[u], m) = name}

JobStartNewImage ==
    \E u \in Users : \E m \in Routed(JobMessages, u, "start_new_image") :
        Handle(u, m, "start_new_image",
               {start_new_image(u, m, io, user_data, presets_file) : io \in ReadIo})

JobFirstImage ==
    \E u \in Users : \E m \in Routed(JobMessages, u, "first_image") :
        Handle(u, m, "first_image",
               {first_image(u, m, AllOk, user_data, presets_file)})

JobSecondImage ==
    \E u \in Users : \E m \in Routed(JobMessages, u, "second_image") :
        Handle(u, m, "second_image",
               {second_image(u, m, AllOk, user_data, presets_file)})

JobProcessName ==
    \E u \in Users : \E m \in Routed(JobMessages, u, "process_name") :
        Handle(u, m, "process_name",
               {process_name(u, m, io, user_data, presets_file) : io \in JobIo})

JobCancel ==
    \E u \in Users : \E m \in Routed(JobMessages, u, "cancel") :
        Handle(u, m, "cancel",
               {cancel(u, m, AllOk, user_data, presets_file)})

JobCatchAll ==
    \E u \in Users : \E m \in Routed(JobMessages, u, "command_handler") :
        Handle(u, m, "command_handler",
               {command_handler(u, m, io, user_data, presets_file) : io \in ReadIo})

JobUnhandled ==
    \E u \in Users : \E m \in Routed(JobMessages, u, "") :
        Handle(u, m, "",
               {Result(user_data, presets_file, <<>>, conversations[u])})

NextJob ==
    \/ JobStartNewImage
    \/ JobFirstImage
    \/ JobSecondImage
    \/ JobProcessName
    \/ JobCancel
    \/ JobCatchAll
    \/ JobUnhandled

SpecJob == Init /\ [][NextJob]_vars

(* Whether the image kept in the session was delivered as a PNG document. *)
DeliveredAsPng(media) == media.kind = "document" /\ media.mime = IMAGE_PNG

(* C24: the documents a job delivers are PNG exactly when one of the two   *)
(* images sent for this job came as a document of type image/png, and JPEG *)
(* otherwise; the user's and the group's copy have one format; the flags   *)
(* and types an earlier job left in the session do not matter.             *)
C24_PngExactlyForPngDocuments ==
    \A u \in Users :
        conversations[u] = NAME
        => /\ HoldsBothMedia(user_data, u)
           /\ \A io \in JobIo :
                LET r == process_name(u, TextMessage(NameA), io,
                                      user_data, presets_file)
                    format == IF \/ DeliveredAsPng(user_data[u]["first_photo"])
                                 \/ DeliveredAsPng(user_data[u]["second_photo"])
                              THEN "PNG" ELSE "JPEG"
                IN  /\ r \in Outcomes("process_name", u, TextMessage(NameA))
                    /\ \A i \in DocumentsTo(r.out, "user") \cup DocumentsTo(r.out, "group") :
                        r.out[i].body = format
                    /\ (io.download /\ io.decode_main /\ io.decode_ref /\ io.send_user)
                        => DocumentsTo(r.out, "user") # {}

(* A job of a photo and a PNG document, delivered as PNG to the user and   *)
(* to the group.                                                           *)
C24_PngDelivered ==
    \E u \in Users :
        /\ conversations[u] = END
        /\ \E i \in DocumentsTo(outbox, "user") : outbox[i].body = "PNG"
        /\ \E i \in DocumentsTo(outbox, "group") : outbox[i].body = "PNG"

----------------------------------------------------------------------------
(* The preset repository on its own: a user in the settings menu who saves *)
(* and loads presets, over preset files of every kind, and the repository  *)
(* read as a fresh process reads it.                                       *)

(* A plain name; a name with a quote, a backslash, a letter outside ASCII  *)
(* and an emoji beyond U+FFFF in it; and a name of two lines with a line   *)
(* tabulation and a backspace.                                             *)
NameQuoted == <<97, 34, 92, 233, 128190>>      \* "a\"\\\xe9\U0001f4be"

StoreNames ==
    {<<68, 101, 109, 111>>,     \* "Demo"
     NameQuoted,
     <<97, 10, 11, 8, 98>>}     \* "a\n\x0b\x08b"

StoreSpacings ==
    {DEFAULT_SPACING,
     [image_x |-> 20, image_y |-> -10, text_x |-> 0, text_y |-> 5],
     [image_x |-> -1000, image_y |-> 9999, text_x |-> -1, text_y |-> 10]}

(* A record of the old schema, one of the current schema, and one of the   *)
(* current schema that lacks three of the four keys.                       *)
LegacyRecord ==
    [spacing |-> [top |-> 10, right |-> 0, bottom |-> 30, left |-> 0]]

FullRecord ==
    [spacing |-> [image_x |-> 1, image_y |-> -2, text_x |-> 3, text_y |-> -4]]

PartialRecord == [spacing |-> [image_x |-> 7]]

StoreFiles ==
    InitialFiles
    \cup {[exists |-> TRUE, valid |-> TRUE, data |-> d] :
            d \in {Put(EmptyDict, NameKeep, FullRecord),
                   Put(EmptyDict, NameOld, LegacyRecord),
                   Put(Put(EmptyDict, NameOld, LegacyRecord), NameKeep, FullRecord),
                   Put(EmptyDict, NamePart, PartialRecord),
                   Put(Put(EmptyDict, NamePart, PartialRecord), NameKeep, FullRecord)}}

InitStore ==
    /\ \E spacing \in StoreSpacings :
        user_data = [u \in Users |-> Put(EmptyDict, "spacing", spacing)]
    /\ conversations = [u \in Users |-> SETTINGS]
    /\ presets_file \in StoreFiles
    /\ outbox = <<>>
    /\ running = EmptyDict
    /\ font_file = FALSE

StoreMessages ==
    {TextMessage(SAVE_PRESET_TEXT)} \cup {TextMessage(n) : n \in StoreNames}

FillMessages == {TextMessage(PRESET_PREFIX \o n) : n \in DOMAIN presets_file.data}

(* What load_presets() handed to its caller. *)
Loaded(presets) == [to |-> "caller", kind |-> "presets", body |-> presets]

(* load_presets() called on its own, as a process that has just started    *)
(* calls it.                                                               *)
StoreLoad ==
    \E io \in ReadIo :
        LET loaded == load_presets(presets_file, io)
        IN  /\ presets_file' = loaded.pf
            /\ outbox' = <<Loaded(loaded.presets)>>
            /\ UNCHANGED <<user_data, conversations, running, font_file>>

StoreSavePrompt ==
    \E u \in Users : \E m \in Routed(StoreMessages, u, "save_preset_prompt") :
        Handle(u, m, "save_preset_prompt",
               {save_preset_prompt(u, m, AllOk, user_data, presets_file)})

StoreSave ==
    \E u \in Users : \E m \in Routed(StoreMessages, u, "save_preset") :
        Handle(u, m, "save_preset",
               {save_preset(u, m, io, user_data, presets_file) : io \in FileIo})

StoreLoadPreset ==
    \E u \in Users : \E m \in FillMessages :
        Handle(u, m, "load_preset",
               {load_preset(u, m, io, user_data, presets_file, EmptyDict) : io \in ReadIo})

NextStore ==
    \/ StoreLoad
    \/ StoreSavePrompt
    \/ StoreSave

SpecStore == InitStore /\ [][NextStore]_vars

(* The consumers of the stored records: a user who applies presets and     *)
(* never saves one.                                                        *)
NextFill ==
    \/ StoreLoad
    \/ StoreLoadPreset

SpecFill == InitStore /\ [][NextFill]_vars

(* The presets the last call of load_presets() returned. *)
LoadedSets == {outbox[i].body : i \in {j \in DOMAIN outbox : outbox[j].kind = "presets"}}

(* C25: where a name is awaited, after a successful save of the session's  *)
(* offsets S under N, load_presets() on the file the save left - whatever  *)
(* the file held before, and whether or not the save could read it -       *)
(* returns under N a record of exactly the four offsets S.                 *)
C25_SavedPresetLoadsBack ==
    \A u \in Users :
        conversations[u] = PRESET_NAME
        => \A n \in StoreNames : \A io \in FileIo :
            LET r == save_preset(u, TextMessage(n), io, user_data, presets_file)
                loaded == load_presets(r.pf, AllOk)
            IN  /\ r \in Outcomes("save_preset", u, TextMessage(n))
                /\ io.write
                    => /\ Sent(r.out, "preset saved")
                       /\ Has(loaded.presets, n)
                       /\ loaded.presets[n] = [spacing |-> user_data[u]["spacing"]]
                       /\ DOMAIN loaded.presets[n]["spacing"] = SPACING_KEYS

(* A load returned, under the name with the quote and the backslash, the   *)
(* offsets the session saved.                                              *)
C25_LoadedBack ==
    \E u \in Users : \E presets \in LoadedSets :
        /\ Has(presets, NameQuoted)
        /\ presets[NameQuoted]
             = [spacing |-> [image_x |-> -1000, image_y |-> 9999,
                             text_x |-> -1, text_y |-> 10]]
        /\ user_data[u]["spacing"]["image_y"] = 9999

(* The stored records of the old schema. *)
LegacyNames == {n \in DOMAIN presets_file.data : IsLegacy(presets_file.data[n])}

(* C26: a load of a file that holds a record of the old schema (reads and  *)
(* writes succeeding) returns the four zero offsets for that record and    *)
(* rewrites the file, with the record migrated; a second load rewrites     *)
(* nothing; and a load of a file without such a record rewrites nothing.   *)
C26_LegacyMigratedOnce ==
    LET first == load_presets(presets_file, AllOk)
        second == load_presets(first.pf, AllOk)
    IN  /\ \A n \in LegacyNames :
            /\ first.presets[n]["spacing"] = [k \in SPACING_KEYS |-> 0]
            /\ first.pf # presets_file
            /\ first.pf.data[n]["spacing"] = [k \in SPACING_KEYS |-> 0]
        /\ second.pf = first.pf
        /\ LegacyNames = {} => \A io \in ReadIo : load_presets(presets_file, io).pf = presets_file

(* A load returned the zero offsets for the old record, and the file now   *)
(* holds the record migrated.                                              *)
C26_Migrated ==
    \E presets \in LoadedSets :
        /\ Has(presets, NameOld)
        /\ presets[NameOld]["spacing"] = [k \in SPACING_KEYS |-> 0]
        /\ presets_file.valid
        /\ Has(presets_file.data, NameOld)
        /\ presets_file.data[NameOld]["spacing"] = [k \in SPACING_KEYS |-> 0]

(* C27 as stated: two loads in a row, the file being readable or          *)
(* unreadable for both, return the same names with the same records,      *)
(* whether or not the first one migrated old records and whatever became  *)
(* of its rewrite.                                                         *)
C27_LoadTwiceSame ==
    \A io1 \in ReadIo, io2 \in ReadIo :
        io1.read = io2.read
        => LET first == load_presets(presets_file, io1)
               second == load_presets(first.pf, io2)
           IN  second.presets = first.presets

(* C28 as stated: every record load_presets() returns has all four        *)
(* offsets.                                                                *)
C28_LoadedRecordsComplete ==
    \A presets \in LoadedSets : \A n \in DOMAIN presets :
        /\ Has(presets[n], "spacing")
        /\ SPACING_KEYS \subseteq DOMAIN presets[n]["spacing"]

(* The offsets a consumer must end up with for a stored spacing: the       *)
(* stored value of each key that is there, 0 for each that is not.         *)
Completes(spacing, stored) ==
    /\ SPACING_KEYS \subseteq DOMAIN spacing
    /\ \A k \in SPACING_KEYS :
        spacing[k] = IF k \in DOMAIN stored THEN stored[k] ELSE 0

(* C28: load_presets() returns a record of the current schema as it is     *)
(* stored, missing keys included; it is each consumer that puts offsets    *)
(* into a session - loading a preset, editing one, and starting a job with *)
(* a last preset - that fills the missing keys with 0, so that a session   *)
(* never holds a partial spacing.                                          *)
C28_ConsumersFillMissingKeys ==
    \A u \in Users :
        /\ \A io \in ReadIo : \A n \in DOMAIN presets_file.data \ LegacyNames :
            io.read => load_presets(presets_file, io).presets[n] = presets_file.data[n]
        /\ \A n \in DOMAIN presets_file.data :
            LET stored == load_presets(presets_file, AllOk).presets[n]["spacing"]
                loading == load_preset(u, TextMessage(PRESET_PREFIX \o n), AllOk,
                                       user_data, presets_file, EmptyDict)
                editing == edit_preset(u, TextMessage(EDIT_PREFIX \o n), AllOk,
                                       user_data, presets_file)
                starting == start_new_image(u, TextMessage(CREATE_IMAGE_TEXT), AllOk,
                                SetField(user_data, u, "last_preset", n),
                                presets_file)
            IN  /\ Completes(loading.ud[u]["spacing"], stored)
                /\ Completes(editing.ud[u]["spacing"], stored)
                /\ Completes(starting.ud[u]["spacing"], stored)
        /\ SPACING_KEYS \subseteq DOMAIN user_data[u]["spacing"]

(* The preset that lacks three keys was loaded: the session has its        *)
(* image_x and zeros, the file still holds the record as it was.           *)
C28_PartialPresetLoaded ==
    \E u \in Users :
        /\ Sent(outbox, "preset loaded")
        /\ Has(user_data[u], "last_preset")
        /\ user_data[u]["last_preset"] = NamePart
        /\ user_data[u]["spacing"]
             = [image_x |-> 7, image_y |-> 0, text_x |-> 0, text_y |-> 0]
        /\ presets_file.data[NamePart] = PartialRecord

----------------------------------------------------------------------------
(* The choice of the font, lines 992-1034 of process_name, and             *)
(* download_font, lines 112-153.  env says what the machine and the        *)
(* network are like during the job: env.cached (FONT_FILE_PATH exists when *)
(* the job starts), env.css_ok, env.url_found, env.font_ok (the two        *)
(* requests and the search for the URL), env.write_ok (the font file can   *)
(* be written), env.kept (the file is still there at line 1003),           *)
(* env.created (a write that fails leaves a file behind all the same),     *)
(* env.loadable (ImageFont.truetype accepts the file), env.platform (the   *)
(* indices of the fallback paths that exist) and env.broken (those of      *)
(* them truetype rejects).                                                 *)

(* Lines 1009-1016: the six fallback paths, by their position in the list. *)
font_paths == 1..6

(* download_font(): whether it reports success, whether the file exists   *)
(* afterwards, and how many requests it made (lines 120 and 141).  A write *)
(* that fails (lines 147-148) may or may not leave a file.                 *)
download_font(env) ==
    IF env.cached THEN [ok |-> TRUE, exists |-> TRUE, fetches |-> 0]
    ELSE IF ~env.css_ok THEN [ok |-> FALSE, exists |-> FALSE, fetches |-> 1]
    ELSE IF ~env.url_found THEN [ok |-> FALSE, exists |-> FALSE, fetches |-> 1]
    ELSE IF ~env.font_ok THEN [ok |-> FALSE, exists |-> FALSE, fetches |-> 2]
    ELSE IF ~env.write_ok THEN [ok |-> FALSE, exists |-> env.created, fetches |-> 2]
    ELSE [ok |-> TRUE, exists |-> TRUE, fetches |-> 2]

(* A job that asks for the download whether or not the file is there, and  *)
(* a download that does not look either: C31 tells it from the tests of    *)
(* lines 998 and 116.                                                      *)
FontFetchesUnchecked(env) == download_font([env EXCEPT !.cached = FALSE]).fetches

(* Lines 997-1000: the requests a job makes for its font. *)
FontFetches(env) == IF env.cached THEN 0 ELSE download_font(env).fetches

(* Lines 1018-1026: the first fallback path that exists and loads; 0 if    *)
(* there is none.                                                          *)
FirstPlatformFont(env) ==
    LET usable == {i \in font_paths : i \in env.platform /\ i \notin env.broken}
    IN  IF usable = {} THEN 0
        ELSE CHOOSE i \in usable : \A j \in usable : i <= j

PlatformFont(i) == [kind |-> "platform", path |-> i]

Boldonse == [kind |-> "boldonse", path |-> 0]

(* ImageFont.load_default() *)
DefaultFont == [kind |-> "default", path |-> 0]

(* Lines 994-1030, the body of the try: the font it ends with, or that it  *)
(* raised.                                                                 *)
FontAttempt(env) ==
    LET downloaded == IF env.cached THEN [ok |-> TRUE, exists |-> TRUE, fetches |-> 0]
                      ELSE download_font(env)
        exists == downloaded.exists /\ env.kept
    IN  IF ~env.cached /\ ~downloaded.ok
        THEN [raised |-> TRUE, font |-> DefaultFont]    \* line 1000
        ELSE IF exists
        THEN IF env.loadable
             THEN [raised |-> FALSE, font |-> Boldonse]
             ELSE [raised |-> TRUE, font |-> DefaultFont]   \* truetype, line 1004
        ELSE IF FirstPlatformFont(env) # 0
        THEN [raised |-> FALSE, font |-> PlatformFont(FirstPlatformFont(env))]
        ELSE [raised |-> FALSE, font |-> DefaultFont]   \* lines 1028-1030

(* A resolution without the handler of lines 1032-1034: C30 tells it from  *)
(* the one that catches.                                                   *)
ResolveFontUncaught(env) ==
    IF FontAttempt(env).raised THEN [kind |-> "error", path |-> 0]
    ELSE FontAttempt(env).font

(* Lines 992-1034: the font the label is drawn with. *)
ResolveFont(env) ==
    IF FontAttempt(env).raised THEN DefaultFont ELSE FontAttempt(env).font

FontEnvironments ==
    [cached : BOOLEAN, css_ok : BOOLEAN, url_found : BOOLEAN, font_ok : BOOLEAN,
     write_ok : BOOLEAN, created : BOOLEAN, kept : BOOLEAN, loadable : BOOLEAN,
     platform : {{}, {3}, {1, 2}, {4, 6}, font_paths},
     broken : {{}, {1}, {3, 4}}]

(* Whether boldonse.ttf is there when the job is over: what download_font  *)
(* left, if the job got no further than line 1000; otherwise whether the   *)
(* file was still there at line 1003.                                      *)
FontFileAfter(env) ==
    IF ~env.cached /\ ~download_font(env).ok THEN download_font(env).exists
    ELSE download_font(env).exists /\ env.kept

FontChoice(env, font) ==
    [to |-> "canvas", kind |-> "font",
     body |-> [env |-> env, font |-> font, fetches |-> FontFetches(env)]]

(* Lines 992-1034 on a machine and network of any kind: the job finds the  *)
(* font file the earlier jobs left and leaves the one download_font wrote. *)
ChooseFont ==
    \E u \in Users : \E env \in FontEnvironments :
        /\ conversations[u] = NAME
        /\ env.cached = font_file
        /\ outbox' = <<FontChoice(env, ResolveFont(env))>>
        /\ font_file' = FontFileAfter(env)
        /\ UNCHANGED <<user_data, conversations, presets_file, running>>

NextFont == ChooseFont

(* A user who sent two photos, asked for the label. *)
InitFont ==
    /\ user_data = [u \in Users |-> AnchorSession(u, 0, 0)]
    /\ conversations = [u \in Users |-> NAME]
    /\ presets_file \in InitialFiles
    /\ outbox = <<>>
    /\ running = EmptyDict
    /\ font_file = FALSE

SpecFont == InitFont /\ [][NextFont]_vars

FontChoices == {outbox[i].body : i \in {j \in DOMAIN outbox : outbox[j].kind = "font"}}

(* The cached font cannot be had: it is absent and not fetched, or it is   *)
(* there and does not load.                                                *)
CachedFontFails(env) ==
    \/ ~env.cached /\ ~(env.css_ok /\ env.url_found /\ env.font_ok /\ env.write_ok)
    \/ (env.cached \/ (env.css_ok /\ env.url_found /\ env.font_ok /\ env.write_ok))
       /\ env.kept /\ ~env.loadable

(* C29: when the cached font is absent and the fetch fails, or the cached  *)
(* file does not load, the label is drawn with the first platform font     *)
(* that exists, and with the built-in font only if none exists.            *)
C29_PlatformFontBeforeBuiltIn ==
    \A c \in FontChoices :
        CachedFontFails(c.env)
        => /\ c.env.platform # {}
              => /\ c.font.kind = "platform"
                 /\ c.font.path \in c.env.platform
                 /\ \A i \in c.env.platform : c.font.path <= i
           /\ c.font = DefaultFont => c.env.platform = {}

(* C30: whatever fails while the font is looked for, the label is drawn    *)
(* with a font: the cached one, a platform one or the built-in one.        *)
C30_FontAlwaysObtained ==
    \A c \in FontChoices :
        /\ c.font.kind \in {"boldonse", "platform", "default"}
        /\ c.font.kind = "platform"
            => c.font.path \in c.env.platform \ c.env.broken
        /\ c.font.kind = "boldonse"
            => c.env.loadable /\ (c.env.cached \/ c.env.font_ok)

(* Nothing works - no cache, no stylesheet, no platform font - and the     *)
(* label is drawn with the built-in font.                                  *)
C30_BuiltInFontUsed ==
    \E c \in FontChoices :
        /\ ~c.env.cached /\ ~c.env.css_ok
        /\ c.env.platform = {}
        /\ c.font = DefaultFont

----------------------------------------------------------------------------
(* C39: a session's spacing, when there is one, has the four keys, and     *)
(* where the label or the value of an offset is awaited the session has a  *)
(* spacing.                                                                *)
C39_SessionSpacingComplete ==
    \A u \in DOMAIN conversations :
        /\ Has(Session(user_data, u), "spacing")
            => DOMAIN Session(user_data, u)["spacing"] = SPACING_KEYS
        /\ conversations[u] \in {NAME, SPACING_INPUT}
            => Has(Session(user_data, u), "spacing")

(* The value of an offset is awaited and the session holds an offset that  *)
(* is not the default.                                                     *)
C39_AwaitingWithSpacing ==
    \E u \in DOMAIN conversations :
        /\ conversations[u] = SPACING_INPUT
        /\ Has(Session(user_data, u), "spacing")
        /\ Session(user_data, u)["spacing"] # DEFAULT_SPACING

----------------------------------------------------------------------------
(* What a reader of the file pf finds in it. *)
Stored(pf) == load_presets(pf, AllOk).presets

(* Every preset of the file before, other than n, is in the file after     *)
(* with the same offsets.                                                  *)
OthersKept(before, after, n) ==
    \A k \in DOMAIN Stored(before) \ {n} :
        /\ Has(Stored(after), k)
        /\ Stored(after)[k] = Stored(before)[k]

(* C38 as stated: a save under N and a delete of N leave every other       *)
(* stored preset in the file with the same offsets, whatever becomes of    *)
(* the read that precedes the write and of the write.                      *)
C38_OtherPresetsKept ==
    \A u \in Users : \A io \in FileIo :
        /\ conversations[u] = PRESET_NAME
            => \A n \in StoreNames :
                LET r == save_preset(u, TextMessage(n), io, user_data, presets_file)
                IN  OthersKept(presets_file, r.pf, n)
        /\ \A n \in DOMAIN presets_file.data :
                LET r == delete_preset(u, TextMessage(DELETE_PREFIX \o n), io,
                                       user_data, presets_file)
                IN  OthersKept(presets_file, r.pf, n)

----------------------------------------------------------------------------
(* The preset operations of a user: the list, and the load, the save and   *)
(* the delete of a name, each as the update that asks for it.              *)
PresetRequests ==
    {TextMessage(PRESETS_TEXT)}
    \cup {TextMessage(PRESET_PREFIX \o n) : n \in DOMAIN presets_file.data}
    \cup {TextMessage(DELETE_PREFIX \o n) : n \in DOMAIN presets_file.data}
    \cup {TextMessage(n) : n \in StoreNames}

PresetHandlers == {"presets_menu", "load_preset", "save_preset", "delete_preset"}

PresetOperation(name, u, m, io) ==
    CASE name = "presets_menu" -> presets_menu(u, m, io, user_data, presets_file)
      [] name = "load_preset" ->
            load_preset(u, m, io, user_data, presets_file, EmptyDict)
      [] name = "save_preset" -> save_preset(u, m, io, user_data, presets_file)
      [] name = "delete_preset" -> delete_preset(u, m, io, user_data, presets_file)

(* The read of an existing file fails, or the write of a handler that      *)
(* writes does.                                                            *)
FileFails(name, io) ==
    \/ presets_file.exists /\ ~io.read
    \/ name \in {"save_preset", "delete_preset"} /\ ~io.write

(* What the handlers send when something went wrong. *)
FailureReports ==
    {"error saving preset", "error deleting preset", "preset not found"}

(* C34: a preset operation during which the read or the write of the file  *)
(* fails tells the user of a failure, does not raise, and leaves the       *)
(* conversation where it was or where the operation leads when nothing     *)
(* fails.                                                                  *)
C34_FileFailureReported ==
    \A u \in Users : \A m \in PresetRequests :
        LET name == Route(conversations[u], m)
        IN  name \in PresetHandlers
            => \A io \in {x \in FileIo : FileFails(name, x)} :
                LET r == PresetOperation(name, u, m, io)
                    unfailed == PresetOperation(name, u, m, AllOk)
                IN  /\ \E tag \in FailureReports : Sent(r.out, tag)
                    /\ ~r.raised
                    /\ After(name, u, r)
                        \in {conversations[u], After(name, u, unfailed)}

----------------------------------------------------------------------------
(* The buttons of the preset lists: a user in the presets menu, over a     *)
(* file whose names include one with " (" in it and one that is the start  *)
(* of the others.                                                          *)
NameAb == <<65, 98>>               \* "Ab"
NameParen == <<65, 32, 40, 120>>   \* "A (x"

ButtonNames == {NameA, NameAb, NameParen}

ButtonFile ==
    [exists |-> TRUE, valid |-> TRUE,
     data |-> Put(Put(Put(EmptyDict,
                  NameA, [spacing |-> [image_x |-> 1, image_y |-> 0,
                                         text_x |-> 0, text_y |-> 0]]),
                  NameAb, [spacing |-> [image_x |-> 0, image_y |-> -2,
                                              text_x |-> 0, text_y |-> 0]]),
                  NameParen, [spacing |-> [image_x |-> -3, image_y |-> 4,
                                                        text_x |-> 5, text_y |-> 6]])]

InitButtons ==
    /\ user_data = EmptyDict
    /\ conversations = [u \in Users |-> PRESETS]
    /\ presets_file = ButtonFile
    /\ outbox = <<>>
    /\ running = EmptyDict
    /\ font_file = FALSE

(* The button a list shows for the stored preset n (lines 456-470,         *)
(* 517-530, 1192-1205).                                                    *)
RenderedButton(prefix, n) ==
    PresetButton(prefix, n, Stored(presets_file)[n]["spacing"])

ButtonMessages ==
    {TextMessage(RenderedButton(prefix, n)) :
        prefix \in {PRESET_PREFIX, EDIT_PREFIX, DELETE_PREFIX},
        n \in DOMAIN presets_file.data}
    \cup {TextMessage(EDIT_PRESET_TEXT), TextMessage(DELETE_PRESET_TEXT),
          TextMessage(PRESETS_TEXT), TextMessage(BACK_TEXT)}

ButtonLoadPreset ==
    \E u \in Users : \E m \in Routed(ButtonMessages, u, "load_preset") :
        Handle(u, m, "load_preset",
               {load_preset(u, m, io, user_data, presets_file, EmptyDict) : io \in ReadIo})

ButtonEditPresetSelect ==
    \E u \in Users : \E m \in Routed(ButtonMessages, u, "edit_preset_select") :
        Handle(u, m, "edit_preset_select",
               {edit_preset_select(u, m, io, user_data, presets_file) : io \in ReadIo})

ButtonEditPreset ==
    \E u \in Users : \E m \in Routed(ButtonMessages, u, "edit_preset") :
        Handle(u, m, "edit_preset",
               {edit_preset(u, m, io, user_data, presets_file) : io \in ReadIo})

ButtonDeletePresetSelect ==
    \E u \in Users : \E m \in Routed(ButtonMessages, u, "delete_preset_select") :
        Handle(u, m, "delete_preset_select",
               {delete_preset_select(u, m, io, user_data, presets_file) : io \in ReadIo})

ButtonDeletePreset ==
    \E u \in Users : \E m \in Routed(ButtonMessages, u, "delete_preset") :
        Handle(u, m, "delete_preset",
               {delete_preset(u, m, io, user_data, presets_file) : io \in FileIo})

ButtonPresetsMenu ==
    \E u \in Users : \E m \in Routed(ButtonMessages, u, "presets_menu") :
        Handle(u, m, "presets_menu",
               {presets_menu(u, m, io, user_data, presets_file) : io \in ReadIo})

ButtonSettings ==
    \E u \in Users : \E m \in Routed(ButtonMessages, u, "settings") :
        Handle(u, m, "settings",
               {settings(u, m, AllOk, user_data, presets_file)})

NextButtons ==
    \/ ButtonLoadPreset
    \/ ButtonEditPresetSelect
    \/ ButtonEditPreset
    \/ ButtonDeletePresetSelect
    \/ ButtonDeletePreset
    \/ ButtonPresetsMenu
    \/ ButtonSettings

SpecButtons == InitButtons /\ [][NextButtons]_vars

(* C37: the button rendered for the stored preset N, pressed in the list   *)
(* that shows it with the file readable and writable, acts on N: the load  *)
(* applies N's offsets and remembers N, the edit remembers N as the preset *)
(* being edited, the delete removes N and nothing else.                    *)
C37_ButtonActsOnItsPreset ==
    \A u \in Users : \A n \in DOMAIN presets_file.data :
        LET stored == Stored(presets_file)
            load == TextMessage(RenderedButton(PRESET_PREFIX, n))
            edit == TextMessage(RenderedButton(EDIT_PREFIX, n))
            delete == TextMessage(RenderedButton(DELETE_PREFIX, n))
        IN  /\ Route(conversations[u], load) = "load_preset"
                => LET r == load_preset(u, load, AllOk, user_data, presets_file,
                                        EmptyDict)
                   IN  /\ Sent(r.out, "preset loaded")
                       /\ r.ud[u]["last_preset"] = n
                       /\ r.ud[u]["spacing"] = FillMissing(stored[n]["spacing"])
            /\ Route(conversations[u], edit) = "edit_preset"
                => LET r == edit_preset(u, edit, AllOk, user_data, presets_file)
                   IN  /\ Sent(r.out, "editing preset")
                       /\ r.ud[u]["editing_preset"] = n
                       /\ r.ud[u]["spacing"] = FillMissing(stored[n]["spacing"])
            /\ Route(conversations[u], delete) = "delete_preset"
                => LET r == delete_preset(u, delete, AllOk, user_data, presets_file)
                   IN  /\ Sent(r.out, "preset deleted")
                       /\ Stored(r.pf) = Del(stored, n)

----------------------------------------------------------------------------
(* Two users and the one preset file: user_data and the conversations are  *)
(* per user, spacing_presets.json is shared.  Both users are in the        *)
(* settings menu, each with offsets of their own.                          *)
Pair == {"u1", "u2"}

SharedName == <<78>>       \* "N"

PairSpacing(u) ==
    IF u = "u1" THEN [image_x |-> 10, image_y |-> 0, text_x |-> 0, text_y |-> 0]
    ELSE [image_x |-> 0, image_y |-> -20, text_x |-> 0, text_y |-> 0]

InitShared ==
    /\ user_data = [u \in Pair |-> Put(EmptyDict, "spacing", PairSpacing(u))]
    /\ conversations = [u \in Pair |-> SETTINGS]
    /\ presets_file \in InitialFiles
    /\ outbox = <<>>
    /\ running = EmptyDict
    /\ font_file = FALSE

SharedMessages ==
    {TextMessage(SAVE_PRESET_TEXT), TextMessage(SharedName),
     TextMessage(DONE_TEXT), TextMessage(SETTINGS_TEXT),
     TextMessage(CREATE_IMAGE_TEXT), TextMessage(CANCEL_TEXT)}
    \cup {TextMessage(RenderedButton(PRESET_PREFIX, n)) : n \in DOMAIN presets_file.data}

SharedSettings ==
    \E u \in Pair : \E m \in Routed(SharedMessages, u, "settings") :
        Handle(u, m, "settings",
               {settings(u, m, AllOk, user_data, presets_file)})

SharedSavePresetPrompt ==
    \E u \in Pair : \E m \in Routed(SharedMessages, u, "save_preset_prompt") :
        Handle(u, m, "save_preset_prompt",
               {save_preset_prompt(u, m, AllOk, user_data, presets_file)})

(* Where the name is awaited every text is a name: the users of this       *)
(* specification type the one name, or go back.                            *)
SharedSavePreset ==
    \E u \in Pair :
        \E m \in Routed({TextMessage(SharedName), TextMessage(BACK_TEXT)}, u,
                        "save_preset") :
            Handle(u, m, "save_preset",
                   {save_preset(u, m, io, user_data, presets_file) : io \in FileIo})

SharedLoadPreset ==
    \E u \in Pair : \E m \in Routed(SharedMessages, u, "load_preset") :
        Handle(u, m, "load_preset",
               {load_preset(u, m, io, user_data, presets_file, EmptyDict) : io \in ReadIo})

SharedDoneSettings ==
    \E u \in Pair : \E m \in Routed(SharedMessages, u, "done_settings") :
        Handle(u, m, "done_settings",
               {done_settings(u, m, AllOk, user_data, presets_file)})

SharedStartNewImage ==
    \E u \in Pair : \E m \in Routed(SharedMessages, u, "start_new_image") :
        Handle(u, m, "start_new_image",
               {start_new_image(u, m, io, user_data, presets_file) : io \in ReadIo})

SharedCancel ==
    \E u \in Pair : \E m \in Routed(SharedMessages, u, "cancel") :
        Handle(u, m, "cancel",
               {cancel(u, m, AllOk, user_data, presets_file)})

NextShared ==
    \/ SharedSettings
    \/ SharedSavePresetPrompt
    \/ SharedSavePreset
    \/ SharedLoadPreset
    \/ SharedDoneSettings
    \/ SharedStartNewImage
    \/ SharedCancel

SpecShared == InitShared /\ [][NextShared]_vars

(* C36: where user b is idle after loading or saving the preset N and      *)
(* another user a is asked for a name, a's save under N leaves b's session *)
(* as it is, and b's next job starts with the offsets it would have        *)
(* started with had a not saved.                                           *)
C36_OffsetsFromOwnInputs ==
    \A a \in Pair : \A b \in Pair \ {a} :
        (/\ conversations[a] = PRESET_NAME
         /\ conversations[b] = END
         /\ Has(Session(user_data, b), "last_preset"))
        => \A io \in FileIo :
            LET n == Session(user_data, b)["last_preset"]
                create == TextMessage(CREATE_IMAGE_TEXT)
                saved == save_preset(a, TextMessage(n), io, user_data, presets_file)
                alone == start_new_image(b, create, AllOk, user_data, presets_file)
                after == start_new_image(b, create, AllOk, saved.ud, saved.pf)
            IN  /\ Session(saved.ud, b) = Session(user_data, b)
                /\ SpacingOf(after.ud, b) = SpacingOf(alone.ud, b)

(* C31: a job that finds the font file makes no request and does not     *)
(* remove the file, and a download that succeeded has written it: unless   *)
(* something outside the program removes the file (env.kept is FALSE), it  *)
(* is there when the job is over, so that after one successful download no *)
(* job fetches again.                                                      *)
C31_CachedFontNotFetched ==
    [][\A c \in FontChoices' :
        /\ font_file => c.fetches = 0 /\ (c.env.kept => font_file')
        /\ (~font_file /\ c.env.css_ok /\ c.env.url_found /\ c.env.font_ok
            /\ c.env.write_ok) => c.fetches = 2 /\ (c.env.kept => font_file')]_vars

(* A job has drawn its label with the font file an earlier job fetched,    *)
(* and made no request.                                                    *)
C31_CacheUsed ==
    /\ font_file
    /\ \E c \in FontChoices :
        c.env.cached /\ c.fetches = 0 /\ c.font = Boldonse

----------------------------------------------------------------------------
(* The application's one context of execution.  main() builds the          *)
(* Application without concurrent_updates (line 1345), so the updates of   *)
(* all users are taken from one queue and each is handled to its end       *)
(* before the next is looked at; the handlers call load_presets,           *)
(* save_presets, requests.get and Pillow synchronously.  Here the handlers *)
(* that take time are two steps each - save_preset and delete_preset read  *)
(* the file and then write it, process_name starts the job and then ends   *)
(* it - and a call between its two steps is in running.                    *)

(* An application that handles every update at once, concurrently with    *)
(* the calls in progress: C32 tells it from the sequential one of line     *)
(* 1345.                                                                   *)
LoopAlwaysFree(calls) == TRUE

(* No call is in progress: the next update can be handled. *)
LoopFree(calls) == DOMAIN calls = {}

Call(name, m, presets) == [name |-> name, m |-> m, presets |-> presets]

(* The file as a call in progress read it. *)
Snapshot(presets) == [exists |-> TRUE, valid |-> TRUE, data |-> presets]

LoopName(u) ==
    IF u = "u1" THEN <<80, 49>>     \* "P1"
    ELSE <<80, 50>>                 \* "P2"

LoopSession(u) ==
    [AnchorSession(u, 0, 0) EXCEPT !["spacing"] = PairSpacing(u)]

(* Two users, each asked for a preset name, shown the delete list or asked *)
(* for the label of two photos, over a file that holds one preset.         *)
InitLoop ==
    /\ user_data = [u \in Pair |-> LoopSession(u)]
    /\ conversations \in [Pair -> {PRESET_NAME, DELETE_PRESET, NAME}]
    /\ presets_file = Snapshot(Put(EmptyDict, NameKeep, FullRecord))
    /\ outbox = <<>>
    /\ running = EmptyDict
    /\ font_file = FALSE

LoopMessages(u) ==
    {TextMessage(LoopName(u)), TextMessage(NameA),
     TextMessage(SAVE_PRESET_TEXT), TextMessage(SETTINGS_TEXT),
     TextMessage(BACK_TEXT)}
    \cup {TextMessage(RenderedButton(DELETE_PREFIX, n)) : n \in DOMAIN presets_file.data}

(* The texts of LoopMessages(u) that the conversation of u hands to the    *)
(* handler called name and that make it do its work.                       *)
LoopRouted(u, name) ==
    {m \in Routed(LoopMessages(u), u, name) :
        CASE name = "save_preset" -> m.text = LoopName(u)
          [] name = "delete_preset" -> StartsWith(m.text, DELETE_PREFIX)
          [] name = "process_name" -> m.text = NameA
          [] OTHER -> TRUE}

(* Lines 653-669: save_preset has read the file, which it does for a      *)
(* session that has a spacing (line 665); for one that has none it answers *)
(* that there is nothing to save and is over (lines 697-706).              *)
LoopSavePresetRead ==
    \E u \in Pair \ DOMAIN running : \E m \in LoopRouted(u, "save_preset") :
        /\ LoopFree(running)
        /\ IF Has(user_data, u) /\ Has(user_data[u], "spacing")
           THEN /\ running' = Put(running, u,
                                  Call("save_preset", m,
                                       load_presets(presets_file, AllOk).presets))
                /\ presets_file' = load_presets(presets_file, AllOk).pf
                /\ UNCHANGED <<user_data, conversations, outbox>>
           ELSE /\ user_data' = save_preset(u, m, AllOk, user_data, presets_file).ud
                /\ presets_file' = save_preset(u, m, AllOk, user_data, presets_file).pf
                /\ outbox' = save_preset(u, m, AllOk, user_data, presets_file).out
                /\ conversations' =
                     [conversations EXCEPT ![u] =
                         After("save_preset", u,
                               save_preset(u, m, AllOk, user_data, presets_file))]
                /\ UNCHANGED running
        /\ UNCHANGED font_file

(* Lines 671-706: it puts the name into what it read, writes and answers.  *)
LoopSavePresetWrite ==
    \E u \in DOMAIN running :
        /\ running[u].name = "save_preset"
        /\ LET r == save_preset(u, running[u].m, AllOk, user_data,
                                Snapshot(running[u].presets))
           IN  /\ user_data' = r.ud
               /\ presets_file' = r.pf
               /\ outbox' = r.out
               /\ conversations' =
                    [conversations EXCEPT ![u] = After("save_preset", u, r)]
        /\ running' = Del(running, u)
        /\ UNCHANGED font_file

(* Line 1231: delete_preset has read the file. *)
LoopDeletePresetRead ==
    \E u \in Pair \ DOMAIN running : \E m \in LoopRouted(u, "delete_preset") :
        LET loaded == load_presets(presets_file, AllOk)
        IN  /\ LoopFree(running)
            /\ running' = Put(running, u, Call("delete_preset", m, loaded.presets))
            /\ presets_file' = loaded.pf
            /\ UNCHANGED <<user_data, conversations, outbox, font_file>>

(* Lines 1233-1267: it removes the name from what it read and writes, or   *)
(* answers that the name is not there and writes nothing.                  *)
LoopDeletePresetWrite ==
    \E u \in DOMAIN running :
        /\ running[u].name = "delete_preset"
        /\ LET r == delete_preset(u, running[u].m, AllOk, user_data,
                                  Snapshot(running[u].presets))
           IN  /\ user_data' = r.ud
               /\ presets_file' = IF Sent(r.out, "preset deleted")
                                  THEN r.pf ELSE presets_file
               /\ outbox' = r.out
               /\ conversations' =
                    [conversations EXCEPT ![u] = After("delete_preset", u, r)]
        /\ running' = Del(running, u)
        /\ UNCHANGED font_file

(* Line 918: process_name answers that it is at work, or raises there. *)
LoopProcessNameBegin ==
    \E u \in Pair \ DOMAIN running : \E m \in LoopRouted(u, "process_name") :
        /\ LoopFree(running)
        /\ \E reply \in BOOLEAN :
            IF reply
            THEN /\ running' = Put(running, u, Call("process_name", m, EmptyDict))
                 /\ outbox' = <<Text("processing")>>
            ELSE /\ running' = running
                 /\ outbox' = <<>>
        /\ UNCHANGED <<user_data, conversations, presets_file, font_file>>

(* The replies of a job and its downloads, decodings and deliveries. *)
LabelIo ==
    {[io EXCEPT !.reply_note = n, !.reply_done = d, !.reply_error = e,
                !.reply_retry = t] :
        io \in JobIo, n \in BOOLEAN, d \in BOOLEAN, e \in BOOLEAN, t \in BOOLEAN}

(* Lines 920-1139: the downloads, the composition and the deliveries have  *)
(* returned or raised.                                                     *)
LoopProcessNameEnd ==
    \E u \in DOMAIN running :
        /\ running[u].name = "process_name"
        /\ \E io \in LabelIo :
            LET r == process_name(u, running[u].m, io, user_data, presets_file)
            IN  /\ user_data' = r.ud
                /\ presets_file' = r.pf
                /\ outbox' = r.out
                /\ conversations' =
                    [conversations EXCEPT ![u] = After("process_name", u, r)]
                /\ font_file' = (font_file \/ r.font)
        /\ running' = Del(running, u)

LoopSavePresetPrompt ==
    \E u \in Pair \ DOMAIN running : \E m \in LoopRouted(u, "save_preset_prompt") :
        LoopFree(running) /\ Handle(u, m, "save_preset_prompt",
                                    {save_preset_prompt(u, m, AllOk, user_data, presets_file)})

LoopSettings ==
    \E u \in Pair \ DOMAIN running : \E m \in LoopRouted(u, "settings") :
        LoopFree(running) /\ Handle(u, m, "settings",
                                    {settings(u, m, AllOk, user_data, presets_file)})

LoopPresetsMenu ==
    \E u \in Pair \ DOMAIN running : \E m \in LoopRouted(u, "presets_menu") :
        /\ LoopFree(running)
        /\ Handle(u, m, "presets_menu",
                  {presets_menu(u, m, io, user_data, presets_file) : io \in ReadIo})

NextLoop ==
    \/ LoopSavePresetRead
    \/ LoopSavePresetWrite
    \/ LoopDeletePresetRead
    \/ LoopDeletePresetWrite
    \/ LoopProcessNameBegin
    \/ LoopProcessNameEnd
    \/ LoopSavePresetPrompt
    \/ LoopSettings
    \/ LoopPresetsMenu

SpecLoop == InitLoop /\ [][NextLoop]_vars

(* The calls that end in this step. *)
Ended == DOMAIN running \ DOMAIN running'

(* C32: a save that ends with success leaves the file as it was when the   *)
(* save ended with the saved name put into it, and a delete that ends with *)
(* success leaves it with the deleted name taken out: whatever the other   *)
(* user saved or deleted in the meantime is still reflected.               *)
C32_NoLostUpdate ==
    [][\A u \in Ended :
        /\ (running[u].name = "save_preset" /\ Sent(outbox', "preset saved"))
            => Stored(presets_file')
                = Put(Stored(presets_file), Strip(running[u].m.text),
                      [spacing |-> SpacingOf(user_data, u)])
        /\ (running[u].name = "delete_preset" /\ Sent(outbox', "preset deleted"))
            => Stored(presets_file')
                = Del(Stored(presets_file),
                      Strip(BeforeParen(RemoveAll(running[u].m.text, DELETE_PREFIX))))
      ]_vars

(* Both users have saved, each under a name of their own, and the preset   *)
(* the file started with has been deleted: the file holds the two names    *)
(* with the offsets of the two users.                                      *)
C32_BothSavedOneDeleted ==
    /\ DOMAIN Stored(presets_file) = {LoopName(u) : u \in Pair}
    /\ \A u \in Pair :
        /\ Session(user_data, u)["last_preset"] = LoopName(u)
        /\ Stored(presets_file)[LoopName(u)]["spacing"] = PairSpacing(u)

LoopHandlers ==
    {"save_preset", "delete_preset", "process_name", "save_preset_prompt",
     "settings", "presets_menu"}

(* User v has sent an update that one of the handlers would take. *)
Pending(v) == \E name \in LoopHandlers : LoopRouted(v, name) # {}

(* A step in which the handling of an update of v starts. *)
Served(v) ==
    /\ NextLoop
    /\ v \notin DOMAIN running
    /\ \/ v \in DOMAIN running'
       \/ conversations'[v] # conversations[v]
       \/ user_data'[v] # user_data[v]

(* C33: while the job of one user is in progress - its downloads, the      *)
(* composition or the font request have not returned - an update of        *)
(* another user, who has no call in progress, can be handled.              *)
C33_OtherUsersServed ==
    \A u \in DOMAIN running :
        running[u].name = "process_name"
        => \A v \in Pair \ DOMAIN running : Pending(v) => ENABLED Served(v)

(* Every external call of a job returns or raises: a job that has started  *)
(* ends.                                                                   *)
SpecLoopFair == InitLoop /\ [][NextLoop]_vars /\ WF_vars(LoopProcessNameEnd)

(* C35: a label taken by process_name leads to the conversation being      *)
(* over, whether the job succeeds or fails.                                *)
C35_LabelLeadsToIdle ==
    \A u \in Pair :
        (u \in DOMAIN running /\ running[u].name = "process_name")
        ~> (conversations[u] = END)

====
